---- MODULE Spec2Model ----
(***************************************************************************)
(* connect-four-server: the board engine (src/src/game.rs), the Game       *)
(* Session actor (src/src/server/actor/game.rs) and the actors around it   *)
(* (player.rs, lobby.rs), as state machines.                               *)
(*                                                                         *)
(* Durations are integers (ticks of the clock).  Instants are held relative *)
(* to the present: `now` is 0 and a tick of the clock lowers every instant  *)
(* by one.                                                                  *)
(* Option<T> is a sequence of length 0 (None) or 1 (Some).                 *)
(***************************************************************************)
EXTENDS Integers, Sequences, FiniteSets, TLC

None == <<>>
Some(x) == <<x>>
is_some(o) == o # <<>>
is_none(o) == o = <<>>
unwrap(o) == o[1]

Min(a, b) == IF a <= b THEN a ELSE b
Max(a, b) == IF a >= b THEN a ELSE b

(***************************************************************************)
(* Board engine, src/src/game.rs                                           *)
(***************************************************************************)
P1 == "P1"
P2 == "P2"
Player == {P1, P2}
Draw == "Draw"

other(p) == IF p = P1 THEN P2 ELSE P1

FIELD_SIZE == 7
WIN_LEN == 4
LAST_TURN == FIELD_SIZE * FIELD_SIZE - 1

Idx == 0 .. (FIELD_SIZE - 1)

\* field[x][y]: column x, row y; row FIELD_SIZE - 1 is the bottom.
EMPTY_FIELD == [cx \in Idx |-> [cy \in Idx |-> None]]

GameState_new(starting_player) ==
    [player |-> starting_player, turn |-> 0, result |-> None, last_move |-> None]

InternalGame_new(rules) ==
    [field |-> EMPTY_FIELD, state |-> GameState_new(rules.starting_player), rules |-> rules]

\* The loops of len_*: cells (x + sx*d, y + sy*d) for d = d0 .. dmax, counted
\* until the first cell that is not `player`.
RECURSIVE count_run(_, _, _, _, _, _, _, _)
count_run(field, x, y, sx, sy, d, dmax, player) ==
    IF d > dmax THEN 0
    ELSE IF field[x + sx * d][y + sy * d] = Some(player)
         THEN 1 + count_run(field, x, y, sx, sy, d + 1, dmax, player)
         ELSE 0

len_horizontal(field, x, y, player) ==
    1 + count_run(field, x, y, -1, 0, 1, x, player)
      + count_run(field, x, y, 1, 0, 1, FIELD_SIZE - 1 - x, player)

len_vertical(field, x, y, player) ==
    1 + count_run(field, x, y, 0, -1, 1, y, player)
      + count_run(field, x, y, 0, 1, 1, FIELD_SIZE - 1 - y, player)

len_diagonal_tl_br(field, x, y, player) ==
    1 + count_run(field, x, y, -1, -1, 1, Min(x, y), player)
      + count_run(field, x, y, 1, 1, 1, FIELD_SIZE - Max(x, y) - 1, player)

len_diagonal_tr_bl(field, x, y, player) ==
    1 + count_run(field, x, y, 1, -1, 1, Min(y, FIELD_SIZE - 1 - x), player)
      + count_run(field, x, y, -1, 1, 1, Min(x, FIELD_SIZE - 1 - y), player)

\* Game::is_move_winning without the columns.
is_move_winning_no_vertical(field, x, y, player) ==
    \/ len_horizontal(field, x, y, player) >= WIN_LEN
    \/ len_diagonal_tl_br(field, x, y, player) >= WIN_LEN
    \/ len_diagonal_tr_bl(field, x, y, player) >= WIN_LEN

\* Game::is_move_winning without the diagonals.
is_move_winning_no_diagonal(field, x, y, player) ==
    \/ len_horizontal(field, x, y, player) >= WIN_LEN
    \/ len_vertical(field, x, y, player) >= WIN_LEN

is_move_winning(field, x, y, player) ==
    \/ len_horizontal(field, x, y, player) >= WIN_LEN
    \/ len_vertical(field, x, y, player) >= WIN_LEN
    \/ len_diagonal_tl_br(field, x, y, player) >= WIN_LEN
    \/ len_diagonal_tr_bl(field, x, y, player) >= WIN_LEN

\* One iteration of the inner loop of get_horizontal_and_vertical_matches.
hv_step(field, i, j, s) ==
    LET v_player == field[i][j]
        h_player == field[j][i]
        s1 == IF v_player = s.v_last /\ is_some(v_player)
              THEN [s EXCEPT !.v_len = @ + 1]
              ELSE [s EXCEPT
                      !.matches = IF s.v_len >= WIN_LEN
                                  THEN Append(@, <<<<i, j - s.v_len>>, <<i, j - 1>>>>)
                                  ELSE @,
                      !.v_last = v_player,
                      !.v_len = IF is_some(v_player) THEN 1 ELSE 0]
    IN  IF h_player = s1.h_last /\ is_some(h_player)
        THEN [s1 EXCEPT !.h_len = @ + 1]
        ELSE [s1 EXCEPT
                !.matches = IF s1.h_len >= WIN_LEN
                            THEN Append(@, <<<<j - s1.h_len, i>>, <<j - 1, i>>>>)
                            ELSE @,
                !.h_last = h_player,
                !.h_len = IF is_some(h_player) THEN 1 ELSE 0]

\* The inner loop `for j in 0..FIELD_SIZE`.  (The loop state is bound through a
\* singleton set so that it is evaluated before the next iteration.)
RECURSIVE hv_inner(_, _, _, _)
hv_inner(field, i, j, s) ==
    IF j = FIELD_SIZE THEN s
    ELSE CHOOSE r \in {hv_inner(field, i, j + 1, t) : t \in {hv_step(field, i, j, s)}} : TRUE

\* The pushes after the inner loop with the column match one row too long.
hv_edge_long(i, s) ==
    LET m1 == IF s.v_len >= WIN_LEN
              THEN Append(s.matches, <<<<i, FIELD_SIZE - s.v_len - 1>>, <<i, FIELD_SIZE - 1>>>>)
              ELSE s.matches
    IN  IF s.h_len >= WIN_LEN
        THEN Append(m1, <<<<FIELD_SIZE - s.h_len, i>>, <<FIELD_SIZE - 1, i>>>>)
        ELSE m1

\* The two pushes after the inner loop: the runs that reach the edge.
hv_edge(i, s) ==
    LET m1 == IF s.v_len >= WIN_LEN
              THEN Append(s.matches, <<<<i, FIELD_SIZE - s.v_len>>, <<i, FIELD_SIZE - 1>>>>)
              ELSE s.matches
    IN  IF s.h_len >= WIN_LEN
        THEN Append(m1, <<<<FIELD_SIZE - s.h_len, i>>, <<FIELD_SIZE - 1, i>>>>)
        ELSE m1

\* The outer loop `for i in 0..FIELD_SIZE`.
RECURSIVE hv_outer(_, _, _)
hv_outer(field, i, matches) ==
    IF i = FIELD_SIZE THEN matches
    ELSE CHOOSE r \in {hv_outer(field, i + 1, m) :
                           m \in {hv_edge(i, hv_inner(field, i, 0,
                                      [v_len |-> 0, v_last |-> None,
                                       h_len |-> 0, h_last |-> None,
                                       matches |-> matches]))}} : TRUE

get_horizontal_and_vertical_matches(matches, field) == hv_outer(field, 0, matches)

\* One iteration of the inner loop of get_diagonal_matches.
diag_step(field, dx, dy, b, s) ==
    LET p1 == field[b + dx][b + dy]
        p2 == field[FIELD_SIZE - 1 - b - dx][b + dy]
        s1 == IF p1 = s.last_p1 /\ is_some(p1)
              THEN [s EXCEPT !.len1 = @ + 1]
              ELSE [s EXCEPT
                      !.matches = IF s.len1 >= WIN_LEN
                                  THEN Append(@, <<<<b + dx - s.len1, b + dy - s.len1>>,
                                                   <<b + dx - 1, b + dy - 1>>>>)
                                  ELSE @,
                      !.last_p1 = p1,
                      !.len1 = IF is_some(p1) THEN 1 ELSE 0]
    IN  IF p2 = s1.last_p2 /\ is_some(p2)
        THEN [s1 EXCEPT !.len2 = @ + 1]
        ELSE [s1 EXCEPT
                !.matches = IF s1.len2 >= WIN_LEN
                            THEN Append(@, <<<<FIELD_SIZE + s1.len2 - 1 - b - dx, b + dy - s1.len2>>,
                                             <<FIELD_SIZE - b - dx, b + dy - 1>>>>)
                            ELSE @,
                !.last_p2 = p2,
                !.len2 = IF is_some(p2) THEN 1 ELSE 0]

RECURSIVE diag_inner(_, _, _, _, _, _)
diag_inner(field, dx, dy, b, b_max, s) ==
    IF b = b_max THEN s
    ELSE CHOOSE r \in {diag_inner(field, dx, dy, b + 1, b_max, t) :
                           t \in {diag_step(field, dx, dy, b, s)}} : TRUE

\* The two pushes after the inner loop: the runs that reach the edge.
diag_edge(dx, dy, b_max, s) ==
    LET m1 == IF s.len1 >= WIN_LEN
              THEN Append(s.matches, <<<<b_max + dx - s.len1, b_max + dy - s.len1>>,
                                       <<b_max + dx - 1, b_max + dy - 1>>>>)
              ELSE s.matches
    IN  IF s.len2 >= WIN_LEN
        THEN Append(m1, <<<<FIELD_SIZE + s.len2 - 1 - b_max - dx, b_max + dy - s.len2>>,
                          <<FIELD_SIZE - b_max - dx, b_max + dy - 1>>>>)
        ELSE m1

\* One diagonal pair d: the inner loop `for b in 0..b_max` and the pushes.
diag_pair(field, dx, dy, b_max, matches) ==
    diag_edge(dx, dy, b_max,
        diag_inner(field, dx, dy, 0, b_max,
            [last_p1 |-> None, len1 |-> 0, last_p2 |-> None, len2 |-> 0,
             matches |-> matches]))

\* The outer loop `for d in -DIAGONALS..=DIAGONALS`.
RECURSIVE diag_outer(_, _, _)
diag_outer(field, d, matches) ==
    IF d > FIELD_SIZE - WIN_LEN THEN matches
    ELSE CHOOSE r \in {diag_outer(field, d + 1, m) :
                           m \in {diag_pair(field, -Min(d, 0), Max(d, 0),
                                            FIELD_SIZE - (IF d < 0 THEN -d ELSE d),
                                            matches)}} : TRUE

get_diagonal_matches(matches, field) == diag_outer(field, -(FIELD_SIZE - WIN_LEN), matches)

\* The second half of get_result: the result that the matches found give.
result_of_matches(matches, field, turn) ==
    LET p1 == \E k \in 1 .. Len(matches) : field[matches[k][1][1]][matches[k][1][2]] = Some(P1)
        p2 == \E k \in 1 .. Len(matches) : field[matches[k][1][1]][matches[k][1][2]] = Some(P2)
    IN  IF matches # <<>>
        THEN IF p1 /\ p2 THEN Some([winner |-> Draw, matches |-> matches])
             ELSE IF p1 THEN Some([winner |-> P1, matches |-> matches])
             ELSE IF p2 THEN Some([winner |-> P2, matches |-> matches])
             ELSE None
        ELSE IF turn >= LAST_TURN
             THEN Some([winner |-> Draw, matches |-> <<>>])
             ELSE None

get_result(field, turn) ==
    result_of_matches(
        get_diagonal_matches(get_horizontal_and_vertical_matches(<<>>, field), field),
        field, turn)

\* The first row, from the top, of column col that holds a chip of `player`
\* (the `for i in 0..FIELD_SIZE ... break` loop of update_result); -1 if none.
RECURSIVE first_chip_of(_, _, _, _)
first_chip_of(field, col, i, player) ==
    IF i = FIELD_SIZE THEN -1
    ELSE IF field[col][i] = Some(player) THEN i
    ELSE first_chip_of(field, col, i + 1, player)

\* The delayed check of update_result under allow_draws: whether the last
\* move, made by the other player, was a winning one.
skip_incremental_check(game) ==
    /\ is_some(game.state.last_move)
    /\ LET col == unwrap(game.state.last_move)
           other_player == other(game.state.player)
           i == first_chip_of(game.field, col, 0, other_player)
       IN  i >= 0 /\ is_move_winning(game.field, col, i, other_player)

\* Game::update_result without the delayed check of the last move.
update_result_undelayed(game, x, y) ==
    LET player == game.state.player
        turn == game.state.turn
    IN  IF turn >= LAST_TURN
        THEN [game EXCEPT !.state.result = get_result(game.field, turn)]
        ELSE IF game.rules.allow_draws /\ turn % 2 = 0
        THEN game
        ELSE IF is_move_winning(game.field, x, y, player)
        THEN [game EXCEPT !.state.result = get_result(game.field, turn)]
        ELSE game

\* Game::update_result without the look at LAST_TURN.
update_result_no_last_turn(game, x, y) ==
    LET player == game.state.player
        turn == game.state.turn
    IN  IF game.rules.allow_draws /\ turn % 2 = 0
        THEN game
        ELSE IF \/ (game.rules.allow_draws /\ skip_incremental_check(game))
                \/ is_move_winning(game.field, x, y, player)
        THEN [game EXCEPT !.state.result = get_result(game.field, turn)]
        ELSE game

update_result(game, x, y) ==
    LET player == game.state.player
        turn == game.state.turn
    IN  IF turn >= LAST_TURN
        THEN [game EXCEPT !.state.result = get_result(game.field, turn)]
        ELSE IF game.rules.allow_draws /\ turn % 2 = 0
        THEN game
        ELSE IF \/ (game.rules.allow_draws /\ skip_incremental_check(game))
                \/ is_move_winning(game.field, x, y, player)
        THEN [game EXCEPT !.state.result = get_result(game.field, turn)]
        ELSE game

\* GameState::next_turn without the change of the player.
next_turn_same(state, col) ==
    [state EXCEPT !.turn = @ + 1, !.last_move = col]

next_turn(state, col) ==
    [state EXCEPT !.turn = @ + 1, !.player = other(@), !.last_move = col]

\* The lowest empty row of column col (the `for i in (0..FIELD_SIZE).rev()`
\* loop of end_turn); -1 if the column is filled.
RECURSIVE lowest_empty(_, _, _)
lowest_empty(field, col, i) ==
    IF i < 0 THEN -1
    ELSE IF is_some(field[col][i]) THEN lowest_empty(field, col, i - 1)
    ELSE i

Ok(game) == [ok |-> TRUE, err |-> "", game |-> game]
Err(e, game) == [ok |-> FALSE, err |-> e, game |-> game]

\* Game::end_turn without the look at the result.
end_turn_col_on(game, col) ==
    IF col >= FIELD_SIZE THEN Err("IndexOutOfBounds", game)
    ELSE LET i == lowest_empty(game.field, col, FIELD_SIZE - 1)
         IN  IF i < 0 THEN Err("ColumnFilled", game)
             ELSE LET placed == [game EXCEPT !.field[col][i] = Some(game.state.player)]
                      checked == update_result(placed, col, i)
                  IN  Ok([checked EXCEPT !.state = next_turn(@, Some(col))])

\* Game::end_turn for a move into column col.
end_turn_col(game, col) ==
    IF col >= FIELD_SIZE THEN Err("IndexOutOfBounds", game)
    ELSE IF is_some(game.state.result) THEN Err("GameOver", game)
    ELSE LET i == lowest_empty(game.field, col, FIELD_SIZE - 1)
         IN  IF i < 0 THEN Err("ColumnFilled", game)
             ELSE LET placed == [game EXCEPT !.field[col][i] = Some(game.state.player)]
                      checked == update_result(placed, col, i)
                  IN  Ok([checked EXCEPT !.state = next_turn(@, Some(col))])

\* The pass of a turn (end_turn without a column): the grid is untouched, the
\* turn index and the current player advance; under allow_draws the delayed
\* check of the starting player's last move still runs.
end_turn_pass(game) ==
    IF is_some(game.state.result) THEN Err("GameOver", game)
    ELSE LET checked ==
                 IF /\ game.rules.allow_draws
                    /\ game.state.turn % 2 = 1
                    /\ skip_incremental_check(game)
                 THEN [game EXCEPT !.state.result = get_result(game.field, game.state.turn)]
                 ELSE game
         IN  Ok([checked EXCEPT !.state = next_turn(@, None)])

\* Game::end_turn as the session calls it, with an optional column.
end_turn(game, col) ==
    IF is_some(col) THEN end_turn_col(game, unwrap(col)) ELSE end_turn_pass(game)

\* is_chip_count_valid that lets either player be one chip ahead.
is_chip_count_valid_either(starter, p1, p2) ==
    p1 = p2 \/ p1 = p2 + 1 \/ p2 = p1 + 1

is_chip_count_valid(starter, p1, p2) ==
    IF p1 = p2 THEN TRUE
    ELSE IF starter = P1 THEN p1 = p2 + 1
    ELSE p2 = p1 + 1

\* The inner loop of get_turn_and_validate over the slots of a column from
\* slot y on, from the top: whether no empty slot follows a chip, and the
\* chips of either player.
RECURSIVE count_col(_, _, _)
count_col(col, y, found) ==
    IF y = FIELD_SIZE THEN [ok |-> TRUE, p1 |-> 0, p2 |-> 0]
    ELSE IF is_some(col[y])
         THEN LET rest == count_col(col, y + 1, TRUE)
              IN  IF col[y] = Some(P1) THEN [rest EXCEPT !.p1 = @ + 1]
                  ELSE [rest EXCEPT !.p2 = @ + 1]
         ELSE IF found THEN [ok |-> FALSE, p1 |-> 0, p2 |-> 0]
         ELSE count_col(col, y + 1, FALSE)

\* The outer loop, over the columns from column x on.
RECURSIVE count_chips(_, _)
count_chips(field, x) ==
    IF x = FIELD_SIZE THEN [ok |-> TRUE, p1 |-> 0, p2 |-> 0]
    ELSE LET c == count_col(field[x], 0, FALSE)
         IN  IF ~c.ok THEN c
             ELSE LET rest == count_chips(field, x + 1)
                  IN  [ok |-> rest.ok, p1 |-> c.p1 + rest.p1, p2 |-> c.p2 + rest.p2]

get_turn_and_validate(field, starter) ==
    LET n == count_chips(field, 0)
    IN  IF ~n.ok THEN [ok |-> FALSE, err |-> "Gravity", turn |-> 0]
        ELSE IF is_chip_count_valid(starter, n.p1, n.p2)
             THEN [ok |-> TRUE, err |-> "", turn |-> n.p1 + n.p2]
             ELSE [ok |-> FALSE, err |-> "ChipCount", turn |-> 0]

GameState_fast_forward(starter, turn) ==
    LET res == GameState_new(starter)
    IN  [res EXCEPT !.player = IF turn % 2 = 0 THEN other(@) ELSE @,
                    !.turn = turn]

from_raw_data(rules, field) ==
    LET turn == get_turn_and_validate(field, rules.starting_player)
    IN  IF ~turn.ok THEN Err(turn.err, None)
        ELSE LET state == GameState_fast_forward(rules.starting_player, turn.turn)
             IN  Ok([field |-> field,
                     state |-> [state EXCEPT !.result = get_result(field, state.turn)],
                     rules |-> rules])


(***************************************************************************)
(* Game configuration, src/src/game_config.rs                              *)
(***************************************************************************)
GameConfig_from_partial(partial) ==
    [time_per_turn |-> IF is_some(partial.time_per_turn) THEN unwrap(partial.time_per_turn) ELSE 0,
     time_cap |-> IF is_some(partial.time_cap) THEN unwrap(partial.time_cap) ELSE 0,
     allow_draws |-> IF is_some(partial.allow_draws) THEN unwrap(partial.allow_draws) ELSE FALSE]

apply_partial(config, partial) ==
    [time_per_turn |-> IF is_some(partial.time_per_turn)
                       THEN unwrap(partial.time_per_turn) ELSE config.time_per_turn,
     time_cap |-> IF is_some(partial.time_cap) THEN unwrap(partial.time_cap) ELSE config.time_cap,
     allow_draws |-> IF is_some(partial.allow_draws)
                     THEN unwrap(partial.allow_draws) ELSE config.allow_draws]

(***************************************************************************)
(* Game Session actor, src/src/server/actor/game.rs                        *)
(***************************************************************************)

\* Bounds of the model.
\* MaxOps: the end-turns accepted, the restart requests and the accepting
\* restart responses handled in one run (a rejecting response only ever
\* removes a request).  MaxLate: how far behind the clock an instant is
\* followed.
MaxOps == 2
MaxLate == 1

\* Shortest per-turn time for which a turn timer runs (server::constants).
TIME_PER_TURN_MIN == 1
\* AppConfig::restart_request_timeout.
restart_request_timeout == 1

\* A u32 is held as its two 16-bit halves, value hi * 2^16 + lo.
HALF == 65536
u32(hi, lo) == [hi |-> hi, lo |-> lo]
is_u32(n) == n.hi \in 0 .. (HALF - 1) /\ n.lo \in 0 .. (HALF - 1)
U32_MAX == u32(HALF - 1, HALF - 1)

\* u32::saturating_add(self, 1) in the place of wrapping_add.
saturating_add_1(n) ==
    IF n.lo + 1 < HALF THEN u32(n.hi, n.lo + 1)
    ELSE IF n.hi + 1 < HALF THEN u32(n.hi + 1, 0)
    ELSE n

\* u32::wrapping_add(self, 1)
wrapping_add_1(n) ==
    IF n.lo + 1 < HALF THEN u32(n.hi, n.lo + 1)
    ELSE u32((n.hi + 1) % HALF, 0)

\* Connections: c1 and c2 are the players of the session, c3 is another one.
Conns == {"c1", "c2", "c3"}
addrs == [p \in Player |-> IF p = P1 THEN "c1" ELSE "c2"]

\* Config deltas a client sends (lobby pick-player, restart).
NoDelta == [time_per_turn |-> None, time_cap |-> None, allow_draws |-> None]
PartialInputs ==
    {NoDelta,
     [time_per_turn |-> Some(1), time_cap |-> Some(2), allow_draws |-> None],
     [time_per_turn |-> None, time_cap |-> Some(0), allow_draws |-> None]}

\* Columns a client names in an end-turn request (None is a pass).
ColInputs == {None, Some(0), Some(FIELD_SIZE)}

VARIABLES
    stage,              \* Game::stage: PlayerSelection{p1_vote, p2_vote} or InGame{game, extra_time, timeout}
    round,              \* Game::round
    config,             \* Game::config
    restart_requests,   \* Game::restart_requests
    timers,             \* the futures spawned on the actor's context with run_later
    run,                \* the actor's life: "created", "running", "stopped"
    last,               \* the last step: the handler that ran and how it ended
    ops,                \* the operations counted against MaxOps
    conn,               \* the Player actors of the two connections of the session
    mailbox,            \* the mailbox of the Game actor
    lobbies,            \* LobbyRouter::lobbies: the entries (id, address) of the registry
    router_mailbox,     \* the mailbox of the LobbyRouter actor
    lobby,              \* the Lobby actor of each id, with its mailbox
    peer,               \* the Player actors of the connections that create and join lobbies
    app_config          \* the AppConfig the router and the lobbies share

vars == <<stage, round, config, restart_requests, timers, run, last, ops, conn, mailbox,
          lobbies, router_mailbox, lobby, peer, app_config>>

\* The registry, the lobbies and their connections.
lobby_vars == <<lobbies, router_mailbox, lobby, peer, app_config>>

\* The Game actor, its timers and its two connections.
session_vars == <<stage, round, config, restart_requests, timers, run, ops, conn, mailbox>>

\* Instant::now() and Utc::now()
now == 0

PlayerSelectionStage_new == [kind |-> "PlayerSelection", p1_vote |-> None, p2_vote |-> None]

InGameStage_from(g, extra_time) ==
    [kind |-> "InGame", game |-> g, extra_time |-> extra_time, timeout |-> None]

ZeroTime == [p \in Player |-> 0]

\* starting_player that gives the start to the side that did not vote ready.
starting_player_not_ready(p1_vote, p2_vote, coin) ==
    IF p1_vote /\ ~p2_vote THEN P2
    ELSE IF p2_vote /\ ~p1_vote THEN P1
    ELSE IF coin THEN P1
    ELSE P2

starting_player(p1_vote, p2_vote, coin) ==
    IF p1_vote /\ ~p2_vote THEN P1
    ELSE IF p2_vote /\ ~p1_vote THEN P2
    ELSE IF coin THEN P1
    ELSE P2

InGameStage_new(p1_vote, p2_vote, rules, coin) ==
    InGameStage_from(
        InternalGame_new([starting_player |-> starting_player(p1_vote, p2_vote, coin),
                          allow_draws |-> rules.allow_draws]),
        ZeroTime)

is_game_over(st) == st.kind = "InGame" /\ is_some(st.game.state.result)

outgoing_message(st, rnd) ==
    IF st.kind = "PlayerSelection"
    THEN [type |-> "gamePlayerSelection",
          p1_voted |-> is_some(st.p1_vote), p2_voted |-> is_some(st.p2_vote)]
    ELSE [type |-> "gameSync", round |-> rnd, game |-> st.game,
          timeout |-> IF is_some(st.timeout) THEN Some(unwrap(st.timeout).chrono) ELSE None]

\* The actor and its context while a handler runs.
Self == [stage |-> stage, round |-> round, config |-> config,
         restart_requests |-> restart_requests, timers |-> timers,
         sent |-> <<>>, stop |-> FALSE]

do_send(g, to, msg) == [g EXCEPT !.sent = Append(@, [to |-> to, msg |-> msg])]

send_both(g, msg) == do_send(do_send(g, addrs[P1], msg), addrs[P2], msg)

get_player(player_addr) ==
    IF addrs[P1] = player_addr THEN Some(P1)
    ELSE IF addrs[P2] = player_addr THEN Some(P2)
    ELSE None

sync(g) == send_both(g, outgoing_message(g.stage, g.round))

sync_restart_request(g, player) ==
    LET req == g.restart_requests[player]
    IN  send_both(g, [type |-> "gameRestartRequest", player |-> player,
                      req |-> IF is_some(req)
                              THEN Some([config |-> unwrap(req).config,
                                         timeout |-> unwrap(req).timestamp])
                              ELSE None])

sync_config(g) == send_both(g, [type |-> "gameSetup", config |-> g.config])

\* A handle that names no future spawned on the context (SpawnHandle).
next_handle(g) ==
    CHOOSE h \in 1 .. (Cardinality(g.timers) + 1) :
        /\ \A t \in g.timers : t.handle # h
        /\ \A k \in 1 .. (h - 1) : \E t \in g.timers : t.handle = k

\* ctx.run_later(duration, callback); the handle is next_handle(g).  `armed`
\* notes the round and the turn index in which the future was spawned.
run_later(g, duration, callback) ==
    [g EXCEPT !.timers = @ \cup {[handle |-> next_handle(g), callback |-> callback,
                                  at |-> now + duration,
                                  armed |-> [round |-> g.round,
                                             turn |-> IF g.stage.kind = "InGame"
                                                      THEN g.stage.game.state.turn
                                                      ELSE -1]]}]

cancel_future(g, handle) == [g EXCEPT !.timers = {t \in @ : t.handle # handle}]

\* A signed difference in the place of the saturating one.
Instant_sub_signed(a, b) == a - b

\* Instant - Instant (saturating).
Instant_sub(a, b) == IF a >= b THEN a - b ELSE 0

\* One iteration of the loop of dismiss_duplicate_restart_requests.
dismiss_duplicate_of(g, player) ==
    LET req == g.restart_requests[player]
    IN  IF is_some(req) /\ is_some(unwrap(req).config) /\ unwrap(unwrap(req).config) = g.config
        THEN sync_restart_request(
                 cancel_future([g EXCEPT !.restart_requests[player] = None], unwrap(req).handle),
                 player)
        ELSE g

dismiss_duplicate_restart_requests(g) == dismiss_duplicate_of(dismiss_duplicate_of(g, P1), P2)

\* accept_restart_request without ctx.cancel_future.
accept_restart_request_keeps_future(g, player) ==
    LET req == g.restart_requests[player]
    IN  IF is_none(req) THEN g
        ELSE LET g1 == dismiss_duplicate_restart_requests([g EXCEPT !.restart_requests[player] = None])
                 g3 == IF is_some(unwrap(req).config)
                       THEN sync_config([g1 EXCEPT !.config = unwrap(unwrap(req).config)])
                       ELSE g1
             IN  sync_restart_request(g3, player)

accept_restart_request(g, player) ==
    LET req == g.restart_requests[player]
    IN  IF is_none(req) THEN g
        ELSE LET g1 == dismiss_duplicate_restart_requests([g EXCEPT !.restart_requests[player] = None])
                 g2 == cancel_future(g1, unwrap(req).handle)
                 g3 == IF is_some(unwrap(req).config)
                       THEN sync_config([g2 EXCEPT !.config = unwrap(unwrap(req).config)])
                       ELSE g2
             IN  sync_restart_request(g3, player)

reject_restart_request(g, player) ==
    LET req == g.restart_requests[player]
    IN  IF is_none(req) THEN g
        ELSE sync_restart_request(
                 cancel_future([g EXCEPT !.restart_requests[player] = None], unwrap(req).handle),
                 player)

on_request_timeout(g, player) ==
    sync_restart_request([g EXCEPT !.restart_requests[player] = None], player)

request_timeout_callback(player) ==
    IF player = P1 THEN "on_p1_request_timeout" ELSE "on_p2_request_timeout"

\* The ctx and the RestartRequest that create_restart_request returns.
create_restart_request(g, duration, player, cfg) ==
    [g |-> run_later(g, duration, request_timeout_callback(player)),
     req |-> [config |-> cfg, handle |-> next_handle(g), timestamp |-> now + duration]]

\* update_restart_request that leaves the future of the previous request on
\* the context.
update_restart_request_keeps_future(g, cfg, player) ==
    LET c == create_restart_request([g EXCEPT !.restart_requests[player] = None],
                                    restart_request_timeout, player, cfg)
    IN  sync_restart_request([c.g EXCEPT !.restart_requests[player] = Some(c.req)], player)

update_restart_request(g, cfg, player) ==
    LET old == g.restart_requests[player]
        g1 == IF is_some(old)
              THEN cancel_future([g EXCEPT !.restart_requests[player] = None], unwrap(old).handle)
              ELSE g
        c == create_restart_request(g1, restart_request_timeout, player, cfg)
    IN  sync_restart_request([c.g EXCEPT !.restart_requests[player] = Some(c.req)], player)

\* get_timeout_duration without `time_cap.max(time_per_turn)`.
get_timeout_duration_plain_cap(extra_time, cfg) ==
    IF cfg.time_per_turn < TIME_PER_TURN_MIN THEN 0
    ELSE Min(extra_time + cfg.time_per_turn, cfg.time_cap)

get_timeout_duration(extra_time, cfg) ==
    IF cfg.time_per_turn < TIME_PER_TURN_MIN THEN 0
    ELSE Min(extra_time + cfg.time_per_turn, Max(cfg.time_cap, cfg.time_per_turn))

\* Starts a timeout, if there is none (g.stage is InGame).
start_timeout(g, duration) ==
    IF is_some(g.stage.timeout) \/ duration < TIME_PER_TURN_MIN THEN g
    ELSE [run_later(g, duration, "on_timeout") EXCEPT
            !.stage.timeout = Some([handle |-> next_handle(g),
                                    chrono |-> now + duration,
                                    instant |-> now + duration])]

\* clear_timeout without ctx.cancel_future.
clear_timeout_keeps_future(g) ==
    IF is_none(g.stage.timeout) THEN [g |-> g, remaining |-> 0]
    ELSE [g |-> [g EXCEPT !.stage.timeout = None],
          remaining |-> Instant_sub(unwrap(g.stage.timeout).instant, now)]

\* Clears timeout and returns how much time remained (g.stage is InGame).
clear_timeout(g) ==
    IF is_none(g.stage.timeout) THEN [g |-> g, remaining |-> 0]
    ELSE [g |-> cancel_future([g EXCEPT !.stage.timeout = None], unwrap(g.stage.timeout).handle),
          remaining |-> Instant_sub(unwrap(g.stage.timeout).instant, now)]

restart(g) ==
    LET g1 == IF g.stage.kind = "InGame" THEN clear_timeout(g).g ELSE g
        g2 == dismiss_duplicate_restart_requests(g1)
    IN  sync([g2 EXCEPT !.stage = PlayerSelectionStage_new,
                        !.round = wrapping_add_1(@)])

\* Actor::started; ok1 and ok2 are the results of the two try_send.
started(g, ok1, ok2) ==
    LET attach == [type |-> "AttachController", controller |-> "Game"]
        g1 == IF ok1 THEN do_send(g, addrs[P1], attach) ELSE g
        g2 == IF ok2 THEN do_send(g1, addrs[P2], attach) ELSE g1
    IN  IF ~ok1 \/ ~ok2 THEN [g2 EXCEPT !.stop = TRUE]
        ELSE sync(do_send(do_send(g2,
                 addrs[P1], [type |-> "gameSetup", role |-> P1, config |-> g.config]),
                 addrs[P2], [type |-> "gameSetup", role |-> P2, config |-> g.config]))

\* Actor::stopped.
stopped(g) == send_both(g, [type |-> "Disconnect", reason |-> "GameEnded"])

handle_Disconnected(g) == [g EXCEPT !.stop = TRUE]

\* Handler<PlayerSelectionVote> without the `is_none()` tests.
handle_PlayerSelectionVote_overwrites(g, msg, coin) ==
    IF g.stage.kind # "PlayerSelection" THEN g
    ELSE LET update_p1 == msg.player = addrs[P1]
             update_p2 == msg.player = addrs[P2]
             s1 == IF update_p1 THEN [g.stage EXCEPT !.p1_vote = Some(msg.wants_to_start)]
                   ELSE g.stage
             s2 == IF update_p2 THEN [s1 EXCEPT !.p2_vote = Some(msg.wants_to_start)] ELSE s1
         IN  IF ~(update_p1 \/ update_p2) THEN g
             ELSE IF is_some(s2.p1_vote) /\ is_some(s2.p2_vote)
             THEN sync([g EXCEPT !.stage = InGameStage_new(unwrap(s2.p1_vote), unwrap(s2.p2_vote),
                                                           g.config, coin)])
             ELSE sync([g EXCEPT !.stage = s2])

handle_PlayerSelectionVote(g, msg, coin) ==
    IF g.stage.kind # "PlayerSelection" THEN g
    ELSE LET update_p1 == msg.player = addrs[P1] /\ is_none(g.stage.p1_vote)
             update_p2 == msg.player = addrs[P2] /\ is_none(g.stage.p2_vote)
             s1 == IF update_p1 THEN [g.stage EXCEPT !.p1_vote = Some(msg.wants_to_start)]
                   ELSE g.stage
             s2 == IF update_p2 THEN [s1 EXCEPT !.p2_vote = Some(msg.wants_to_start)] ELSE s1
         IN  IF ~(update_p1 \/ update_p2) THEN g
             ELSE IF is_some(s2.p1_vote) /\ is_some(s2.p2_vote)
             THEN sync([g EXCEPT !.stage = InGameStage_new(unwrap(s2.p1_vote), unwrap(s2.p2_vote),
                                                           g.config, coin)])
             ELSE sync([g EXCEPT !.stage = s2])

\* Whether Handler<EndTurn> gets past its guards and the board accepts the move.
end_turn_accepted(g, msg) ==
    /\ g.stage.kind = "InGame"
    /\ msg.player = addrs[g.stage.game.state.player]
    /\ g.stage.game.state.turn = msg.turn
    /\ end_turn(g.stage.game, msg.col).ok

\* end_turn_timing without the `turn != 0` test.
end_turn_timing_banks_first_turn(g, player, turn) ==
    LET c == clear_timeout(g)
        g2 == [c.g EXCEPT !.stage.extra_time[player] = c.remaining]
    IN  sync(IF is_none(g.stage.game.state.result)
             THEN start_timeout(g2,
                      get_timeout_duration(g2.stage.extra_time[g.stage.game.state.player],
                                           g2.config))
             ELSE g2)

\* Handler<EndTurn> from clear_timeout on: the board has accepted the move
\* (g.stage.game is the board after it), player and turn are those before it.
end_turn_timing(g, player, turn) ==
    LET c == clear_timeout(g)
        g2 == IF turn # 0
              THEN [c.g EXCEPT !.stage.extra_time[player] = c.remaining]
              ELSE c.g
    IN  sync(IF is_none(g.stage.game.state.result)
             THEN start_timeout(g2,
                      get_timeout_duration(g2.stage.extra_time[g.stage.game.state.player],
                                           g2.config))
             ELSE g2)

\* Handler<EndTurn> from the result r of game.end_turn on.
end_turn_result(g, r) ==
    IF ~r.ok THEN g
    ELSE end_turn_timing([g EXCEPT !.stage.game = r.game],
                         g.stage.game.state.player, g.stage.game.state.turn)

\* Handler<EndTurn> without the `turn == msg.turn` test.
handle_EndTurn_any_turn(g, msg) ==
    IF g.stage.kind # "InGame" THEN g
    ELSE IF msg.player # addrs[g.stage.game.state.player] THEN g
    ELSE end_turn_result(g, end_turn(g.stage.game, msg.col))

handle_EndTurn(g, msg) ==
    IF g.stage.kind # "InGame" THEN g
    ELSE IF ~(/\ msg.player = addrs[g.stage.game.state.player]
              /\ g.stage.game.state.turn = msg.turn) THEN g
    ELSE end_turn_result(g, end_turn(g.stage.game, msg.col))

\* Called when the time has ran out.
on_timeout(g) ==
    IF g.stage.kind # "InGame" THEN g
    ELSE handle_EndTurn(g, [player |-> addrs[g.stage.game.state.player],
                            turn |-> g.stage.game.state.turn,
                            col |-> None])

\* Handler<Restart> that tests is_game_over before it looks at the delta.
handle_Restart_terminal_first(g, msg) ==
    LET player == unwrap(get_player(msg.addr))
    IN  IF is_game_over(g.stage) THEN restart(g)
        ELSE IF is_some(msg.partial) /\ apply_partial(g.config, unwrap(msg.partial)) # g.config
        THEN update_restart_request(g, Some(apply_partial(g.config, unwrap(msg.partial))), player)
        ELSE update_restart_request(g, None, player)

handle_Restart(g, msg) ==
    LET player == unwrap(get_player(msg.addr))
    IN  IF is_some(msg.partial)
        THEN LET cfg == apply_partial(g.config, unwrap(msg.partial))
             IN  IF g.config = cfg
                 THEN IF is_game_over(g.stage) THEN restart(g)
                      ELSE update_restart_request(g, None, player)
                 ELSE update_restart_request(g, Some(cfg), player)
        ELSE IF is_game_over(g.stage) THEN restart(g)
        ELSE update_restart_request(g, None, player)

\* Handler<RestartResponse> that restarts before it applies the request.
handle_RestartResponse_restart_first(g, msg) ==
    IF msg.accepted
    THEN accept_restart_request(restart(g), other(unwrap(get_player(msg.addr))))
    ELSE reject_restart_request(g, other(unwrap(get_player(msg.addr))))

\* Handler<RestartResponse> that acts on the request of the responder.
handle_RestartResponse_own_request(g, msg) ==
    IF msg.accepted THEN restart(accept_restart_request(g, unwrap(get_player(msg.addr))))
    ELSE reject_restart_request(g, unwrap(get_player(msg.addr)))

handle_RestartResponse(g, msg) ==
    LET opponent == other(unwrap(get_player(msg.addr)))
    IN  IF msg.accepted THEN restart(accept_restart_request(g, opponent))
        ELSE reject_restart_request(g, opponent)

(***************************************************************************)
(* The session as a state machine                                          *)
(***************************************************************************)

\* A game in progress that the host hands over: P1 holds three cells of
\* column 0, P2 three of column 1, P1 is to move (moves 0,1,0,1,0,1).
NearWinField ==
    [cx \in Idx |-> [cy \in Idx |->
        IF cx = 0 /\ cy >= FIELD_SIZE - 3 THEN Some(P1)
        ELSE IF cx = 1 /\ cy >= FIELD_SIZE - 3 THEN Some(P2)
        ELSE None]]

NearWinGame ==
    [field |-> NearWinField,
     state |-> [player |-> P1, turn |-> 6, result |-> None, last_move |-> Some(1)],
     rules |-> [starting_player |-> P1, allow_draws |-> FALSE]]

\* The arguments of Game::new: the game to resume with the banked times and
\* the round, and the config (a delta over the default config).
NewGameInputs ==
    {[game |-> None, extra_time |-> None, round |-> U32_MAX],
     [game |-> Some(InternalGame_new([starting_player |-> P1, allow_draws |-> FALSE])),
      extra_time |-> Some([p \in Player |-> IF p = P1 THEN 1 ELSE 0]),
      round |-> u32(0, HALF - 1)],
     [game |-> Some(NearWinGame), extra_time |-> None, round |-> u32(0, 1)]}
NewConfigInputs ==
    {[time_per_turn |-> Some(0), time_cap |-> Some(2), allow_draws |-> None],
     [time_per_turn |-> Some(1), time_cap |-> Some(2), allow_draws |-> None],
     [time_per_turn |-> Some(1), time_cap |-> Some(0), allow_draws |-> None]}

\* The sessions a Lobby starts: a new one under each config, the resumed game
\* at turn 0 under the configs that arm a turn timer, the game near its end
\* under the config that arms none.
NewInputs ==
    {x \in NewGameInputs \X NewConfigInputs :
        \/ is_none(x[1].game)
        \/ x[1].game = Some(NearWinGame) /\ x[2].time_per_turn = Some(0)
        \/ is_some(x[1].game) /\ x[1].game # Some(NearWinGame) /\ x[2].time_per_turn = Some(1)}

\* The addresses of the Lobby actors the router starts, the ids Uuid::new_v4
\* draws, the connections that ask for a new lobby (hosts) and those that come
\* with the id of one (candidates), and the codes gen_range draws.
LobbyIds == {"L1", "L2"}
Uuids == {"u1", "u2"}
Hosts == {"h1", "h2"}
Candidates == {"k1", "k2"}
Peers == Hosts \cup Candidates
Codes == {0, 1}

\* The address of the Game actor that the Lobby at an address starts.
GameAddr == [a \in LobbyIds |-> IF a = "L1" THEN "G1" ELSE "G2"]
Games == {GameAddr[a] : a \in LobbyIds}

\* The text messages of a client: one of each variant of IncomingMessage, and
\* one that serde_json does not parse as any.
Texts ==
    {[type |-> "unparsable"], [type |-> "ping", sent |-> 0],
     [type |-> "gameEndTurn", turn |-> 0, col |-> 0],
     [type |-> "gameRestart", partial |-> NoDelta]}
      \cup [type : {"lobbyPickPlayer"}, code : Codes, role : {P1, P2}]
      \cup [type : {"gamePlayerSelectionVote"}, wants_to_start : BOOLEAN]
      \cup [type : {"gameRestartResponse"}, accepted : BOOLEAN]

\* AppConfig as far as the registry, the lobbies and the Player actors read
\* it, with the values the server is started with.  The heartbeat durations
\* are in units of heartbeat_interval.
AppConfigInputs ==
    {[max_lobbies |-> 1, max_players |-> 1, heartbeat_interval |-> 1, heartbeat_timeout |-> 2],
     [max_lobbies |-> 1, max_players |-> 2, heartbeat_interval |-> 1, heartbeat_timeout |-> 2],
     [max_lobbies |-> 2, max_players |-> 1, heartbeat_interval |-> 1, heartbeat_timeout |-> 2]}

\* Player::new, before the connection is there ("unborn", or "never" if it
\* does not come).  The states of the actor after that: "running", "stopped"
\* once Actor::stopped has run, "dropped" once its context and with it its
\* mailbox are gone.
Player_new ==
    [state |-> "unborn", hb |-> 0, controller |-> None,
     disconnected_by_controller |-> FALSE, mailbox |-> <<>>, closed |-> None]

\* No Lobby actor under this id (yet).
Lobby_none ==
    [run |-> "none", id |-> "none", host |-> "none", players |-> {}, game |-> None,
     mailbox |-> <<>>, game_run |-> "none", game_mailbox |-> <<>>,
     player_list_sync |-> [last_update |-> now, handle |-> None], run_later |-> <<>>]

\* The connections that arrive in a run: two that ask for a new lobby, or one
\* that does and two that come with the id of it.
Arrivals == {Hosts, {"h1"} \cup Candidates}

\* The runs of the registry: hosts only under either max_lobbies, a host
\* and the candidates under either max_players.
LobbyInputs ==
    {x \in [arriving : Arrivals, app_config : AppConfigInputs] :
        IF x.arriving = Hosts THEN x.app_config.max_players = 1
        ELSE x.app_config.max_lobbies = 1}

\* LobbyRouter::new, and no Lobby.
NoLobbies ==
    /\ lobbies = {}
    /\ router_mailbox = <<>>
    /\ lobby = [id \in LobbyIds |-> Lobby_none]

\* A Player actor as Handler<IncomingPickPlayer> of the Lobby leaves it: the
\* Lobby is its controller.  `closed` is the reason of ctx.close, `left` tells
\* whether the actor stopped on its own and what the Game actor was at then.
Player_picked ==
    [state |-> "running", hb |-> 0, controller |-> Some("Lobby"),
     disconnected_by_controller |-> FALSE, mailbox |-> <<>>, closed |-> None, left |-> "no"]

Game_new(g, cfg, rnd, extra_time) ==
    [stage |-> IF is_some(g)
               THEN InGameStage_from(unwrap(g),
                        IF is_some(extra_time) THEN unwrap(extra_time) ELSE ZeroTime)
               ELSE PlayerSelectionStage_new,
     round |-> rnd,
     config |-> cfg,
     restart_requests |-> [p \in Player |-> None]]

Init ==
    \E x \in NewInputs :
        /\ LET new == Game_new(x[1].game, GameConfig_from_partial(x[2]), x[1].round,
                            x[1].extra_time)
           IN  /\ stage = new.stage
               /\ round = new.round
               /\ config = new.config
               /\ restart_requests = new.restart_requests
        /\ timers = {}
        /\ run = "created"
        /\ last = [op |-> "new"]
        /\ ops = 0
        /\ conn = [p \in Player |-> Player_picked]
        /\ mailbox = <<>>
        /\ NoLobbies
        /\ peer = [c \in Peers |-> Player_new]
        /\ app_config = [max_lobbies |-> 1, max_players |-> 2,
                         heartbeat_interval |-> 1, heartbeat_timeout |-> 2]

\* The state after a handler that left the actor and its context as g.  An
\* actor that called ctx.stop() stops: the context, with the futures spawned
\* on it, is dropped.  `last` keeps the messages the handler sent, in order.
Commit(g, op) ==
    /\ stage' = g.stage
    /\ round' = g.round
    /\ config' = g.config
    /\ restart_requests' = g.restart_requests
    /\ timers' = IF g.stop THEN {} ELSE g.timers
    /\ run' = IF g.stop THEN "stopped" ELSE "running"
    /\ last' = op @@ [sent |-> g.sent]

\* A step that counts against MaxOps if `counted`; the connections are not
\* looked at.
Count(counted) ==
    /\ counted => ops < MaxOps
    /\ ops' = IF counted THEN ops + 1 ELSE ops
    /\ UNCHANGED <<conn, mailbox>>
    /\ UNCHANGED lobby_vars

StartedWith(ok1, ok2) ==
    /\ run = "created"
    /\ Commit(started(Self, ok1, ok2), [op |-> "started", ok |-> ok1 /\ ok2])
    /\ Count(FALSE)

Started == \E ok1, ok2 \in BOOLEAN : StartedWith(ok1, ok2)

Disconnected ==
    /\ run = "running"
    /\ Commit(handle_Disconnected(Self), [op |-> "Disconnected"])
    /\ Count(FALSE)

VoteInputs == [player : Conns, wants_to_start : BOOLEAN]

PlayerSelectionVoteOf(msg, coin) ==
    /\ run = "running"
    /\ Commit(handle_PlayerSelectionVote(Self, msg, coin),
              [op |-> "PlayerSelectionVote",
               vote |-> IF stage.kind = "PlayerSelection" THEN Some(msg) ELSE None,
               seen |-> IF stage.kind = "PlayerSelection"
                        THEN Some([p1_vote |-> stage.p1_vote, p2_vote |-> stage.p2_vote])
                        ELSE None])
    /\ Count(FALSE)

PlayerSelectionVote == \E msg \in VoteInputs, coin \in BOOLEAN : PlayerSelectionVoteOf(msg, coin)

\* The end-turn requests of the clients: either player's connection (no other
\* connection holds the address of the Game), the current turn index or the
\* one after it, any of ColInputs.
EndTurnInputs ==
    [player : {addrs[P1], addrs[P2]},
     turn : IF stage.kind = "InGame"
            THEN {stage.game.state.turn, stage.game.state.turn + 1}
            ELSE {0},
     col : ColInputs]

EndTurnOf(msg) ==
    /\ run = "running"
    /\ Commit(handle_EndTurn(Self, msg),
              [op |-> "EndTurn", accepted |-> end_turn_accepted(Self, msg)])
    /\ Count(end_turn_accepted(Self, msg))

EndTurn == \E msg \in EndTurnInputs : EndTurnOf(msg)

RestartInputs ==
    [addr : {addrs[P1], addrs[P2]}, partial : {None} \cup {Some(pd) : pd \in PartialInputs}]

\* How a restart request relates to the config: it carries no delta, a delta
\* that leaves the config as it is, or one that changes it.
delta_kind(msg) ==
    IF is_none(msg.partial) THEN "absent"
    ELSE IF apply_partial(config, unwrap(msg.partial)) = config THEN "same"
    ELSE "changed"

\* The config a restart request asks for: None unless its delta changes the
\* config.
target_config(msg) ==
    IF delta_kind(msg) = "changed" THEN Some(apply_partial(config, unwrap(msg.partial)))
    ELSE None

\* Whether the requester has a pending request for the same target config.
is_repeat(msg) ==
    /\ is_some(restart_requests[unwrap(get_player(msg.addr))])
    /\ unwrap(restart_requests[unwrap(get_player(msg.addr))]).config = target_config(msg)

RestartOf(msg) ==
    /\ run = "running"
    /\ Commit(handle_Restart(Self, msg),
              [op |-> "Restart", player |-> unwrap(get_player(msg.addr)),
               delta |-> delta_kind(msg), repeat |-> is_repeat(msg)])
    /\ Count(TRUE)

Restart == \E msg \in RestartInputs : RestartOf(msg)

RestartResponseInputs == [addr : {addrs[P1], addrs[P2]}, accepted : BOOLEAN]

RestartResponseOf(msg) ==
    /\ run = "running"
    /\ Commit(handle_RestartResponse(Self, msg),
              [op |-> "RestartResponse", player |-> unwrap(get_player(msg.addr)),
               accepted |-> msg.accepted])
    /\ Count(msg.accepted)

RestartResponse == \E msg \in RestartResponseInputs : RestartResponseOf(msg)

\* A future spawned with run_later completes: it leaves the context and its
\* callback runs.  It completes no earlier than its deadline.
Due(t) == t \in timers /\ t.at <= now

Fired(t) == [Self EXCEPT !.timers = @ \ {t}]

\* The end-turn request that on_timeout makes up.
pass_request(g) ==
    [player |-> addrs[g.stage.game.state.player], turn |-> g.stage.game.state.turn, col |-> None]

TurnTimeoutOf(t) ==
    /\ run = "running"
    /\ Due(t)
    /\ t.callback = "on_timeout"
    /\ LET taken == stage.kind = "InGame" /\ end_turn_accepted(Fired(t), pass_request(Self))
       IN  /\ Commit(on_timeout(Fired(t)), [op |-> "on_timeout", accepted |-> taken])
           /\ Count(taken)

TurnTimeout == \E t \in timers : TurnTimeoutOf(t)

RequestTimeoutOf(t, p) ==
    /\ run = "running"
    /\ Due(t)
    /\ t.callback = request_timeout_callback(p)
    /\ Commit(on_request_timeout(Fired(t), p), [op |-> "on_request_timeout", player |-> p])
    /\ Count(FALSE)

RequestTimeout == \E t \in timers, p \in Player : RequestTimeoutOf(t, p)

\* The clock ticks: every instant the actor and its context hold comes one
\* tick closer (an instant more than MaxLate behind the clock is followed no
\* further).
earlier(instant) == Max(instant - 1, -MaxLate)

Tick ==
    /\ run = "running"
    /\ \E t \in timers : t.at > -MaxLate
    /\ timers' = {[t EXCEPT !.at = earlier(@)] : t \in timers}
    /\ stage' = IF stage.kind = "InGame" /\ is_some(stage.timeout)
                THEN [stage EXCEPT !.timeout = Some([unwrap(@) EXCEPT
                                                        !.chrono = earlier(@),
                                                        !.instant = earlier(@)])]
                ELSE stage
    /\ restart_requests' =
           [p \in Player |->
               IF is_some(restart_requests[p])
               THEN Some([unwrap(restart_requests[p]) EXCEPT !.timestamp = earlier(@)])
               ELSE None]
    /\ last' = [op |-> "Tick"]
    /\ UNCHANGED <<round, config, run, ops, conn, mailbox>>
    /\ UNCHANGED lobby_vars

Next ==
    \/ Started
    \/ Disconnected
    \/ PlayerSelectionVote
    \/ EndTurn
    \/ Restart
    \/ RestartResponse
    \/ TurnTimeout
    \/ RequestTimeout
    \/ Tick

Spec == Init /\ [][Next]_vars

(***************************************************************************)
(* The session and its two connections: attach, disconnect, stop           *)
(***************************************************************************)

\* do_send of one message: it reaches the mailbox of a Player actor that has
\* not stopped and is dropped otherwise.
put(c, m) ==
    IF c[unwrap(get_player(m.to))].state = "running"
    THEN [c EXCEPT ![unwrap(get_player(m.to))].mailbox = Append(@, m.msg)]
    ELSE c

\* The messages a handler of the Game sent, in the order it sent them.
RECURSIVE deliver(_, _)
deliver(c, sent) ==
    IF sent = <<>> THEN c ELSE deliver(put(c, Head(sent)), Tail(sent))

\* Actor::started of the Game with the connections as they are: try_send
\* fails on a Player actor that has stopped.  A Game that stops runs
\* Actor::stopped.
GameStarts ==
    /\ run = "created"
    /\ Commit(started(Self, conn[P1].state = "running", conn[P2].state = "running"),
              [op |-> "started",
               ok |-> conn[P1].state = "running" /\ conn[P2].state = "running"])
    /\ conn' = IF conn[P1].state = "running" /\ conn[P2].state = "running"
               THEN deliver(conn, started(Self, TRUE, TRUE).sent)
               ELSE deliver(conn,
                        stopped(started(Self, conn[P1].state = "running",
                                        conn[P2].state = "running")).sent)
    /\ UNCHANGED <<ops, mailbox>>
    /\ UNCHANGED lobby_vars

\* Handler<AttachController>, Handler<Disconnect> and the handlers of outgoing
\* messages of the Player actor pl.
Player_handle(pl, msg) ==
    IF msg.type = "AttachController" THEN [pl EXCEPT !.controller = Some(msg.controller)]
    ELSE IF msg.type = "Disconnect"
    THEN [pl EXCEPT !.disconnected_by_controller = TRUE,
                    !.closed = Some(msg.reason),
                    !.state = "stopped",
                    !.mailbox = <<>>]
    ELSE pl

\* Either::Left and Either::Right of the controller of a Player actor: the
\* address of a Lobby, or that of a Game.
is_left(controller) == is_some(controller) /\ unwrap(controller) \in LobbyIds \cup {"Lobby"}
is_right(controller) == is_some(controller) /\ unwrap(controller) \in Games \cup {"Game"}

\* Actor::stopped of the Player actor without the look at
\* disconnected_by_controller.
Player_stopped_always(pl, addr) ==
    IF is_none(pl.controller) THEN <<>>
    ELSE <<[to |-> unwrap(pl.controller), msg |-> [type |-> "Disconnected", addr |-> addr]]>>

\* Actor::stopped of the Player actor pl at addr: what it sends.
Player_stopped(pl, addr) ==
    IF pl.disconnected_by_controller THEN <<>>
    ELSE IF is_none(pl.controller) THEN <<>>
    ELSE <<[to |-> unwrap(pl.controller), msg |-> [type |-> "Disconnected", addr |-> addr]]>>

\* Player::handle_text_message with pick-player passed on to a controller of
\* either kind.
handle_text_message_any(pl, addr, text) ==
    IF text.type = "lobbyPickPlayer" /\ is_some(pl.controller)
    THEN [pl |-> [pl EXCEPT !.hb = now],
          sent |-> <<[to |-> unwrap(pl.controller),
                      msg |-> [type |-> "IncomingPickPlayer",
                               code |-> text.code, role |-> text.role]]>>]
    ELSE [pl |-> IF text.type = "unparsable" THEN pl ELSE [pl EXCEPT !.hb = now],
          sent |-> <<>>]

\* Player::handle_text_message of the Player actor pl at addr: the actor
\* after it and what it sends.  hb is the time since the Instant in self.hb.
handle_text_message(pl, addr, text) ==
    IF text.type = "unparsable" THEN [pl |-> pl, sent |-> <<>>]
    ELSE LET p1 == [pl EXCEPT !.hb = now]
             dropped == [pl |-> p1, sent |-> <<>>]
             to_game(msg) == IF is_right(pl.controller)
                             THEN [pl |-> p1,
                                   sent |-> <<[to |-> unwrap(pl.controller), msg |-> msg]>>]
                             ELSE dropped
         IN  IF text.type = "lobbyPickPlayer"
             THEN IF is_left(pl.controller)
                  THEN [pl |-> p1,
                        sent |-> <<[to |-> unwrap(pl.controller),
                                    msg |-> [type |-> "IncomingPickPlayer",
                                             code |-> text.code, role |-> text.role]]>>]
                  ELSE dropped
             ELSE IF text.type = "gamePlayerSelectionVote"
             THEN to_game([type |-> "PlayerSelectionVote", player |-> addr,
                           wants_to_start |-> text.wants_to_start])
             ELSE IF text.type = "gameEndTurn"
             THEN to_game([type |-> "EndTurn", player |-> addr,
                           turn |-> text.turn, col |-> text.col])
             ELSE IF text.type = "gameRestart"
             THEN to_game([type |-> "Restart", addr |-> addr, partial |-> text.partial])
             ELSE IF text.type = "gameRestartResponse"
             THEN to_game([type |-> "RestartResponse", addr |-> addr,
                           accepted |-> text.accepted])
             ELSE [pl |-> p1, sent |-> <<[to |-> "socket", msg |-> [type |-> "pong"]]>>]

\* A Player actor handles the first message of its mailbox.
PlayerReceives(p) ==
    /\ conn[p].state = "running"
    /\ conn[p].mailbox # <<>>
    /\ conn' = [conn EXCEPT ![p] = Player_handle([conn[p] EXCEPT !.mailbox = Tail(@)],
                                                 Head(conn[p].mailbox))]
    /\ last' = [op |-> "PlayerReceives", player |-> p]
    /\ UNCHANGED <<stage, round, config, restart_requests, timers, run, ops, mailbox>>
    /\ UNCHANGED lobby_vars

\* The connection of p ends (a close frame, a protocol error, a missed
\* heartbeat): the Player actor stops and Actor::stopped tells its controller.
\* A Lobby that has picked its player returns from Handler<Disconnected> at
\* once (or has stopped); the Game gets the message unless it has stopped.
PlayerStops(p) ==
    /\ conn[p].state = "running"
    /\ conn' = [conn EXCEPT ![p].state = "stopped", ![p].mailbox = <<>>, ![p].left = run]
    /\ mailbox' = LET sent == Player_stopped(conn[p], addrs[p])
                  IN  IF sent # <<>> /\ sent[1].to = "Game" /\ run # "stopped"
                      THEN Append(mailbox, sent[1].msg)
                      ELSE mailbox
    /\ last' = [op |-> "PlayerStops", player |-> p]
    /\ UNCHANGED <<stage, round, config, restart_requests, timers, run, ops>>
    /\ UNCHANGED lobby_vars

\* Handler<Disconnected> of the Game, then Actor::stopped.
GameReceives ==
    /\ run = "running"
    /\ mailbox # <<>>
    /\ Commit(handle_Disconnected(Self), [op |-> "Disconnected"])
    /\ conn' = deliver(conn, stopped(handle_Disconnected(Self)).sent)
    /\ mailbox' = <<>>
    /\ UNCHANGED ops
    /\ UNCHANGED lobby_vars

NextLife ==
    \/ GameStarts
    \/ \E p \in Player : PlayerReceives(p)
    \/ \E p \in Player : PlayerStops(p)
    \/ GameReceives

\* The actors handle what is in their mailboxes; a connection need not end.
SpecLife ==
    /\ Init
    /\ [][NextLife]_vars
    /\ WF_vars(GameStarts)
    /\ WF_vars(\E p \in Player : PlayerReceives(p))
    /\ WF_vars(GameReceives)

(***************************************************************************)
(* The registry, the lobbies and their connections                         *)
(***************************************************************************)

\* Addr::connected() and the success of try_send on a Player actor: its
\* mailbox is open, which it stays after Actor::stopped until the context is
\* dropped.
Connected == {c \in Peers : peer[c].state \in {"running", "stopped"}}

\* The same for a Lobby actor, whose context is dropped as it stops.
LobbyConnected == {id \in LobbyIds : lobby[id].run \in {"created", "running"}}

\* The Lobby actor at address a inside one of its handlers.
LobbySelf(a) ==
    [addr |-> a, id |-> lobby[a].id, host |-> lobby[a].host, players |-> lobby[a].players,
     game |-> lobby[a].game, player_list_sync |-> lobby[a].player_list_sync,
     run_later |-> lobby[a].run_later, sent |-> <<>>, stop |-> FALSE, spawned |-> <<>>]

\* The LobbyRouter actor inside one of its handlers.
RouterSelf == [lobbies |-> lobbies, sent |-> <<>>, spawned |-> <<>>]

Lobby_new(id, host) ==
    [run |-> "created", id |-> id, host |-> host, players |-> {}, game |-> None,
     mailbox |-> <<>>, game_run |-> "none", game_mailbox |-> <<>>,
     player_list_sync |-> [last_update |-> now, handle |-> None], run_later |-> <<>>]

\* Lobby::get_id without the look at max_players.
get_id_unbounded(l) ==
    {Some(code) : code \in Codes \ {e.code : e \in l.players}}

\* The outcomes of Lobby::get_id: None at capacity, else a code no player
\* holds (the loop draws until it has one).
get_id(l) ==
    IF Cardinality(l.players) = app_config.max_players
    THEN {None}
    ELSE {Some(code) : code \in Codes \ {e.code : e \in l.players}}

\* do_send of msg to every player of ps (HashMap::values, in its order).
RECURSIVE send_each(_, _, _)
send_each(g, ps, msg) ==
    IF ps = {} THEN g
    ELSE LET e == CHOOSE e \in ps : TRUE
         IN  send_each(do_send(g, e.player, msg), ps \ {e}, msg)

\* Actor::started of the Lobby; ok tells whether try_send to the host went
\* through.
Lobby_started(l, ok) ==
    IF ~ok THEN [l EXCEPT !.stop = TRUE]
    ELSE do_send(l, l.host, [type |-> "AttachController", controller |-> l.addr])

\* Actor::stopped of the Lobby without the RemoveLobby to the router.
Lobby_stopped_silent(l) ==
    LET disconnect_msg == [type |-> "Disconnect",
                           reason |-> IF is_none(l.game) THEN "LobbyClosed"
                                      ELSE "GameStarted"]
        g1 == IF is_none(l.game) THEN do_send(l, l.host, disconnect_msg) ELSE l
    IN  send_each(g1, l.players, disconnect_msg)

\* Actor::stopped of the Lobby.
Lobby_stopped(l) ==
    LET disconnect_msg == [type |-> "Disconnect",
                           reason |-> IF is_none(l.game) THEN "LobbyClosed"
                                      ELSE "GameStarted"]
        g1 == IF is_none(l.game) THEN do_send(l, l.host, disconnect_msg) ELSE l
        g2 == IF is_some(l.player_list_sync.handle) THEN [g1 EXCEPT !.run_later = <<>>]
              ELSE g1
    IN  do_send(send_each(g2, l.players, disconnect_msg), "router",
                [type |-> "RemoveLobby", id |-> l.id])

\* The debounce window of the list of players, in ticks.
PLAYER_LIST_SYNC_DEBOUNCE == 2

\* Lobby::sync_player_list.  last_update is an instant as the distance from
\* now (0 is now, -1 one tick ago).
sync_player_list(l) ==
    [do_send(l, l.host, [type |-> "LobbySync", players |-> {e.code : e \in l.players}])
        EXCEPT !.player_list_sync = [last_update |-> now, handle |-> None]]

\* Lobby::schedule_player_list_sync without the look at the handle.
schedule_player_list_sync_each(l) ==
    IF now - l.player_list_sync.last_update < PLAYER_LIST_SYNC_DEBOUNCE
    THEN [l EXCEPT !.player_list_sync.handle = Some("sync_player_list"),
                   !.run_later = Append(@, now + PLAYER_LIST_SYNC_DEBOUNCE)]
    ELSE sync_player_list(l)

\* Lobby::schedule_player_list_sync.  run_later holds the instants at which
\* the timers of ctx.run_later are due.
schedule_player_list_sync(l) ==
    IF is_some(l.player_list_sync.handle) THEN l
    ELSE IF now - l.player_list_sync.last_update < PLAYER_LIST_SYNC_DEBOUNCE
    THEN [l EXCEPT !.player_list_sync.handle = Some("sync_player_list"),
                   !.run_later = Append(@, now + PLAYER_LIST_SYNC_DEBOUNCE)]
    ELSE sync_player_list(l)

\* Handler<ConnectPlayer>: id is what get_id returned, ok tells whether
\* try_send to the player went through.
Lobby_handle_ConnectPlayer(l, player, id, ok) ==
    IF is_none(id)
    THEN do_send(l, player, [type |-> "Disconnect", reason |-> "LobbyFull"])
    ELSE IF ~ok
    THEN do_send(l, player, [type |-> "Disconnect", reason |-> "LobbyJoinError"])
    ELSE schedule_player_list_sync(
             [do_send(l, player, [type |-> "AttachController", controller |-> l.addr])
                 EXCEPT !.players = @ \cup {[code |-> unwrap(id), player |-> player]}])

\* Handler<Disconnected>: connected is the set of Player actors whose
\* connected() holds as retain asks them.
Lobby_handle_Disconnected(l, addr, connected) ==
    IF is_some(l.game) THEN l
    ELSE IF addr = l.host THEN [l EXCEPT !.stop = TRUE]
    ELSE schedule_player_list_sync(
             [l EXCEPT !.players = {e \in @ : e.player \in connected}])

\* Handler<IncomingPickPlayer> with the two roles the other way round.
Lobby_handle_IncomingPickPlayer_swapped(l, msg) ==
    IF \A e \in l.players : e.code # msg.code THEN l
    ELSE LET player == (CHOOSE e \in l.players : e.code = msg.code).player
             new == IF msg.role = P1 THEN [p1 |-> l.host, p2 |-> player]
                    ELSE [p1 |-> player, p2 |-> l.host]
         IN  [l EXCEPT !.players = {e \in @ : e.code # msg.code},
                       !.game = Some(new),
                       !.spawned = Append(@, new),
                       !.stop = TRUE]

\* Handler<IncomingPickPlayer>.
Lobby_handle_IncomingPickPlayer(l, msg) ==
    IF \A e \in l.players : e.code # msg.code THEN l
    ELSE LET player == (CHOOSE e \in l.players : e.code = msg.code).player
             new == IF msg.role = P1 THEN [p1 |-> player, p2 |-> l.host]
                    ELSE [p1 |-> l.host, p2 |-> player]
         IN  [l EXCEPT !.players = {e \in @ : e.code # msg.code},
                       !.game = Some(new),
                       !.spawned = Append(@, new),
                       !.stop = TRUE]

\* HashMap::insert, HashMap::get and HashMap::remove on the registry: an
\* insert under a key that is there replaces its entry.
insert(entries, id, addr) == {e \in entries : e.id # id} \cup {[id |-> id, addr |-> addr]}
get(entries, id) ==
    IF \E e \in entries : e.id = id
    THEN Some((CHOOSE e \in entries : e.id = id).addr)
    ELSE None
remove(entries, id) == {e \in entries : e.id # id}

\* Handler<CreateLobby> without the look at max_lobbies.
handle_CreateLobby_unbounded(r, host, id, addr) ==
    [r EXCEPT !.lobbies = insert(@, id, addr),
              !.spawned = Append(@, [id |-> id, addr |-> addr, host |-> host])]

\* Handler<CreateLobby>: id is what Uuid::new_v4 returned, addr the address
\* of the Lobby actor that start() makes.
handle_CreateLobby(r, host, id, addr) ==
    IF Cardinality(r.lobbies) >= app_config.max_lobbies
    THEN do_send(r, host, [type |-> "Disconnect", reason |-> "ServerMaxLobbies"])
    ELSE [r EXCEPT !.lobbies = insert(@, id, addr),
                   !.spawned = Append(@, [id |-> id, addr |-> addr, host |-> host])]

\* Handler<JoinLobby>: open is the set of lobbies whose mailbox takes a
\* message.
handle_JoinLobby(r, msg, open) ==
    IF is_none(get(r.lobbies, msg.id))
    THEN do_send(r, msg.player, [type |-> "Disconnect", reason |-> "InviteInvalid"])
    ELSE IF unwrap(get(r.lobbies, msg.id)) \in open
    THEN do_send(r, unwrap(get(r.lobbies, msg.id)),
                 [type |-> "ConnectPlayer", player |-> msg.player])
    ELSE do_send(r, msg.player, [type |-> "Disconnect", reason |-> "InviteInvalid"])

\* Handler<RemoveLobby>: open as above.
handle_RemoveLobby(r, id, open) ==
    IF is_none(get(r.lobbies, id)) THEN r
    ELSE IF unwrap(get(r.lobbies, id)) \in open
    THEN [do_send(r, unwrap(get(r.lobbies, id)), [type |-> "Shutdown"])
             EXCEPT !.lobbies = remove(@, id)]
    ELSE [r EXCEPT !.lobbies = remove(@, id)]

\* Handler<Shutdown> of the Lobby.
Lobby_handle_Shutdown(l) == [l EXCEPT !.stop = TRUE]

\* The mailboxes after the messages of sent: one to a Player actor that has
\* stopped, or to a Lobby that has, is never handled.
RECURSIVE peers_after(_, _)
peers_after(ps, sent) ==
    IF sent = <<>> THEN ps
    ELSE LET m == Head(sent)
         IN  peers_after(
                 IF m.to \in Peers /\ ps[m.to].state = "running"
                 THEN [ps EXCEPT ![m.to].mailbox = Append(@, m.msg)]
                 ELSE ps,
                 Tail(sent))

RECURSIVE lobbies_after(_, _)
lobbies_after(ls, sent) ==
    IF sent = <<>> THEN ls
    ELSE LET m == Head(sent)
         IN  lobbies_after(
                 IF m.to \in LobbyIds /\ ls[m.to].run \in {"created", "running"}
                 THEN [ls EXCEPT ![m.to].mailbox = Append(@, m.msg)]
                 ELSE IF \E a \in LobbyIds : /\ GameAddr[a] = m.to
                                             /\ ls[a].game_run \in {"created", "running"}
                 THEN [ls EXCEPT ![CHOOSE a \in LobbyIds : GameAddr[a] = m.to].game_mailbox =
                                     Append(@, m.msg)]
                 ELSE ls,
                 Tail(sent))

RECURSIVE router_after(_, _)
router_after(box, sent) ==
    IF sent = <<>> THEN box
    ELSE router_after(IF Head(sent).to = "router" THEN Append(box, Head(sent).msg) ELSE box,
                      Tail(sent))

\* The ids to tell apart in a draw of Uuid::new_v4 or in a query string: those
\* of the lobbies that were made, and one that none of them has (which one
\* makes no difference).
DrawnUuids ==
    LET used == {lobby[a].id : a \in LobbyIds}
    IN  (Uuids \cap used)
          \cup (IF Uuids \subseteq used THEN {} ELSE {CHOOSE u \in Uuids : u \notin used})

\* The address of the next Lobby actor: one that no Lobby has had (which one
\* makes no difference).
FreshAddrs ==
    IF \A a \in LobbyIds : lobby[a].run # "none" THEN {}
    ELSE {CHOOSE a \in LobbyIds : lobby[a].run = "none"}

\* The router is through with a handler that left it as r.
RouterCommit(r, op) ==
    /\ lobbies' = r.lobbies
    /\ lobby' = lobbies_after(
                    IF r.spawned = <<>> THEN lobby
                    ELSE [lobby EXCEPT ![r.spawned[1].addr] =
                              Lobby_new(r.spawned[1].id, r.spawned[1].host)],
                    r.sent)
    /\ last' = op @@ [sent |-> r.sent, spawned |-> r.spawned]
    /\ UNCHANGED app_config
    /\ UNCHANGED session_vars

\* A connection arrives with no lobby id: ws_route makes the Player actor,
\* sends the router CreateLobby and returns the response that drives the
\* actor once the router has handled the message.  The actor does nothing
\* and nobody has its address until then, so the step is the handler.
RouterCreates(c) ==
    /\ peer[c].state = "unborn"
    /\ c \in Hosts
    /\ \E id \in DrawnUuids, addr \in FreshAddrs :
          /\ RouterCommit(handle_CreateLobby(RouterSelf, c, id, addr),
                          [op |-> "CreateLobby", host |-> c, id |-> id])
          /\ peer' = peers_after([peer EXCEPT ![c].state = "running"],
                                 handle_CreateLobby(RouterSelf, c, id, addr).sent)
    /\ UNCHANGED router_mailbox

\* A connection arrives with a lobby id: the same with JoinLobby.
RouterJoins(c) ==
    /\ peer[c].state = "unborn"
    /\ c \in Candidates
    /\ \E id \in DrawnUuids :
          /\ RouterCommit(handle_JoinLobby(RouterSelf, [id |-> id, player |-> c],
                                           LobbyConnected),
                          [op |-> "JoinLobby", player |-> c, id |-> id])
          /\ peer' = peers_after([peer EXCEPT ![c].state = "running"],
                                 handle_JoinLobby(RouterSelf, [id |-> id, player |-> c],
                                                  LobbyConnected).sent)
    /\ UNCHANGED router_mailbox

\* The router handles the RemoveLobby a Lobby sent as it stopped.
RouterRemoves ==
    /\ router_mailbox # <<>>
    /\ RouterCommit(handle_RemoveLobby(RouterSelf, Head(router_mailbox).id, LobbyConnected),
                    [op |-> "RemoveLobby", id |-> Head(router_mailbox).id])
    /\ router_mailbox' = Tail(router_mailbox)
    /\ UNCHANGED peer

\* The Lobby of id is through with started or with a handler that left it as
\* g, having taken `taken` messages from its mailbox.  A Lobby that called
\* ctx.stop() runs Actor::stopped and is dropped with its mailbox.
LobbyCommit(id, g, taken, op) ==
    LET end == IF g.stop THEN Lobby_stopped(g) ELSE g
    IN  /\ lobby' = [lobby EXCEPT ![id] =
                        [run |-> IF g.stop THEN "stopped" ELSE "running",
                         id |-> g.id,
                         host |-> g.host,
                         players |-> g.players,
                         game |-> g.game,
                         mailbox |-> IF g.stop THEN <<>>
                                     ELSE SubSeq(lobby[id].mailbox, taken + 1,
                                                 Len(lobby[id].mailbox)),
                         game_run |-> IF g.spawned # <<>> THEN "created"
                                      ELSE lobby[id].game_run,
                         game_mailbox |-> lobby[id].game_mailbox,
                         player_list_sync |-> g.player_list_sync,
                         run_later |-> end.run_later]]
        /\ peer' = peers_after(peer, end.sent)
        /\ router_mailbox' = router_after(router_mailbox, end.sent)
        /\ last' = op @@ [lobby |-> id, sent |-> end.sent, spawned |-> g.spawned]
        /\ UNCHANGED <<lobbies, app_config>>
        /\ UNCHANGED session_vars

LobbyStarts(id) ==
    /\ lobby[id].run = "created"
    /\ LobbyCommit(id, Lobby_started(LobbySelf(id), lobby[id].host \in Connected), 0,
                   [op |-> "Lobby_started"])

LobbyConnects(id) ==
    /\ lobby[id].run = "running"
    /\ lobby[id].mailbox # <<>>
    /\ Head(lobby[id].mailbox).type = "ConnectPlayer"
    /\ \E code \in get_id(LobbySelf(id)) :
          LobbyCommit(id,
                      Lobby_handle_ConnectPlayer(LobbySelf(id), Head(lobby[id].mailbox).player,
                                                 code,
                                                 Head(lobby[id].mailbox).player \in Connected),
                      1,
                      [op |-> "ConnectPlayer", player |-> Head(lobby[id].mailbox).player])

LobbyDisconnected(id) ==
    /\ lobby[id].run = "running"
    /\ lobby[id].mailbox # <<>>
    /\ Head(lobby[id].mailbox).type = "Disconnected"
    /\ LobbyCommit(id,
                   Lobby_handle_Disconnected(LobbySelf(id), Head(lobby[id].mailbox).addr,
                                             Connected),
                   1,
                   [op |-> "Lobby_Disconnected", addr |-> Head(lobby[id].mailbox).addr])

LobbyPicks(id) ==
    /\ lobby[id].run = "running"
    /\ lobby[id].mailbox # <<>>
    /\ Head(lobby[id].mailbox).type = "IncomingPickPlayer"
    /\ LobbyCommit(id,
                   Lobby_handle_IncomingPickPlayer(LobbySelf(id), Head(lobby[id].mailbox)),
                   1,
                   [op |-> "IncomingPickPlayer", code |-> Head(lobby[id].mailbox).code,
                    role |-> Head(lobby[id].mailbox).role])

\* The Player actor of c handles the first message of its mailbox.
PeerReceives(c) ==
    /\ peer[c].state = "running"
    /\ peer[c].mailbox # <<>>
    /\ LET pl == Player_handle([peer[c] EXCEPT !.mailbox = Tail(@)], Head(peer[c].mailbox))
           sent == IF pl.state = "stopped" THEN Player_stopped(pl, c) ELSE <<>>
       IN  /\ peer' = [peer EXCEPT ![c] = pl]
           /\ lobby' = lobbies_after(lobby, sent)
           /\ last' = [op |-> "PeerReceives", player |-> c,
                       type |-> Head(peer[c].mailbox).type, sent |-> sent]
    /\ UNCHANGED <<lobbies, router_mailbox, app_config>>
    /\ UNCHANGED session_vars

\* The connection of c ends (a close frame, a protocol error, a missed
\* heartbeat): the Player actor stops and Actor::stopped tells the controller
\* it has, if it has one.
PeerStops(c) ==
    /\ peer[c].state = "running"
    /\ peer' = [peer EXCEPT ![c].state = "stopped", ![c].mailbox = <<>>]
    /\ lobby' = lobbies_after(lobby, Player_stopped(peer[c], c))
    /\ last' = [op |-> "PeerStops", player |-> c, sent |-> Player_stopped(peer[c], c)]
    /\ ops < MaxOps
    /\ ops' = ops + 1
    /\ UNCHANGED <<lobbies, router_mailbox, app_config>>
    /\ UNCHANGED <<stage, round, config, restart_requests, timers, run, conn, mailbox>>

\* The context of a Player actor that has stopped is dropped: its mailbox
\* closes.
PeerDrops(c) ==
    /\ peer[c].state = "stopped"
    /\ peer' = [peer EXCEPT ![c].state = "dropped"]
    /\ last' = [op |-> "PeerDrops", player |-> c]
    /\ UNCHANGED <<lobbies, router_mailbox, lobby, app_config>>
    /\ UNCHANGED session_vars

\* The client of c sends lobby pick-player: handle_text_message passes it to
\* the Lobby the Player actor has as its controller.
PeerPicks(c) ==
    /\ peer[c].state = "running"
    /\ is_left(peer[c].controller)
    /\ ops < MaxOps
    /\ ops' = ops + 1
    /\ \E text \in {t \in Texts : t.type = "lobbyPickPlayer"} :
          /\ peer' = [peer EXCEPT ![c] = handle_text_message(peer[c], c, text).pl]
          /\ lobby' = lobbies_after(lobby, handle_text_message(peer[c], c, text).sent)
          /\ last' = [op |-> "PeerPicks", player |-> c,
                      sent |-> handle_text_message(peer[c], c, text).sent]
    /\ UNCHANGED <<lobbies, router_mailbox, app_config>>
    /\ UNCHANGED <<stage, round, config, restart_requests, timers, run, conn, mailbox>>

\* No session yet: the Game actor is not looked at.
InitLobby ==
    /\ LET new == Game_new(None, GameConfig_from_partial(NoDelta), U32_MAX, None)
       IN  /\ stage = new.stage
           /\ round = new.round
           /\ config = new.config
           /\ restart_requests = new.restart_requests
    /\ timers = {}
    /\ run = "created"
    /\ last = [op |-> "new"]
    /\ ops = 0
    /\ conn = [p \in Player |-> Player_picked]
    /\ mailbox = <<>>
    /\ NoLobbies
    /\ \E x \in LobbyInputs :
          /\ peer = [c \in Peers |-> IF c \in x.arriving THEN Player_new
                                      ELSE [Player_new EXCEPT !.state = "never"]]
          /\ app_config = x.app_config

LobbyShutdown(id) ==
    /\ lobby[id].run = "running"
    /\ lobby[id].mailbox # <<>>
    /\ Head(lobby[id].mailbox).type = "Shutdown"
    /\ LobbyCommit(id, Lobby_handle_Shutdown(LobbySelf(id)), 1, [op |-> "Shutdown"])

\* Actor::started of the Game with the AttachController to p1 sent twice.
Game_started_twice(addr, p1, p2, ok1, ok2) ==
    LET attach == [type |-> "AttachController", controller |-> addr]
    IN  [sent |-> (IF ok1 THEN <<[to |-> p1, msg |-> attach], [to |-> p1, msg |-> attach]>>
                   ELSE <<>>)
                    \o (IF ok2 THEN <<[to |-> p2, msg |-> attach]>> ELSE <<>>),
         stop |-> ~ok1 \/ ~ok2]

\* A timer of ctx.run_later of the Lobby at a is due and runs
\* Lobby::sync_player_list.
LobbySyncs(a) ==
    /\ lobby[a].run = "running"
    /\ \E i \in 1 .. Len(lobby[a].run_later) :
          /\ lobby[a].run_later[i] <= now
          /\ LobbyCommit(a,
                         sync_player_list([LobbySelf(a) EXCEPT !.run_later =
                             SubSeq(@, 1, i - 1) \o SubSeq(@, i + 1, Len(@))]),
                         0, [op |-> "sync_player_list"])

\* A tick passes for the lobbies: the instants they hold are one tick
\* further back (PLAYER_LIST_SYNC_DEBOUNCE back is followed no further, and
\* a timer is at most MaxLate late).
LobbyTick ==
    /\ \E a \in LobbyIds : lobby[a].run \in {"created", "running"}
    /\ \A a \in LobbyIds :
          \A i \in 1 .. Len(lobby[a].run_later) : lobby[a].run_later[i] > -MaxLate
    /\ lobby' = [a \in LobbyIds |->
                    [lobby[a] EXCEPT
                        !.player_list_sync.last_update =
                            Max(@ - 1, -PLAYER_LIST_SYNC_DEBOUNCE),
                        !.run_later = [i \in 1 .. Len(@) |-> @[i] - 1]]]
    /\ last' = [op |-> "LobbyTick"]
    /\ UNCHANGED <<lobbies, router_mailbox, peer, app_config>>
    /\ UNCHANGED session_vars

\* Actor::started of the Game that a Lobby made with p1 and p2 at the address
\* addr, as far as the Player actors take part in it (the messages for the
\* sockets are left out): what it sends, and whether it called ctx.stop().
\* ok1 and ok2 tell whether try_send to p1 and to p2 succeeds.
Game_started(addr, p1, p2, ok1, ok2) ==
    LET attach == [type |-> "AttachController", controller |-> addr]
    IN  [sent |-> (IF ok1 THEN <<[to |-> p1, msg |-> attach]>> ELSE <<>>)
                    \o (IF ok2 THEN <<[to |-> p2, msg |-> attach]>> ELSE <<>>),
         stop |-> ~ok1 \/ ~ok2]

\* Actor::stopped of that Game: what it sends.
Game_stopped(p1, p2) ==
    <<[to |-> p1, msg |-> [type |-> "Disconnect", reason |-> "GameEnded"]],
      [to |-> p2, msg |-> [type |-> "Disconnect", reason |-> "GameEnded"]]>>

\* The Game that the Lobby at a made starts.
SpawnedGameStarts(a) ==
    /\ lobby[a].game_run = "created"
    /\ LET game == unwrap(lobby[a].game)
           g == Game_started(GameAddr[a], game.p1, game.p2,
                             game.p1 \in Connected, game.p2 \in Connected)
           sent == g.sent \o (IF g.stop THEN Game_stopped(game.p1, game.p2) ELSE <<>>)
       IN  /\ lobby' = [lobby EXCEPT ![a].game_run = IF g.stop THEN "stopped" ELSE "running",
                                     ![a].game_mailbox = IF g.stop THEN <<>> ELSE @]
           /\ peer' = peers_after(peer, sent)
           /\ last' = [op |-> "Game_started", lobby |-> a, sent |-> sent]
    /\ UNCHANGED <<lobbies, router_mailbox, app_config>>
    /\ UNCHANGED session_vars

\* That Game handles the Disconnected of one of its players: it stops.  (No
\* other message reaches it here.)
SpawnedGameReceives(a) ==
    /\ lobby[a].game_run = "running"
    /\ lobby[a].game_mailbox # <<>>
    /\ LET game == unwrap(lobby[a].game)
       IN  /\ lobby' = [lobby EXCEPT ![a].game_run = "stopped", ![a].game_mailbox = <<>>]
           /\ peer' = peers_after(peer, Game_stopped(game.p1, game.p2))
           /\ last' = [op |-> "Game_Disconnected", lobby |-> a,
                       sent |-> Game_stopped(game.p1, game.p2)]
    /\ UNCHANGED <<lobbies, router_mailbox, app_config>>
    /\ UNCHANGED session_vars

NextLobby ==
    \/ \E c \in Peers : RouterCreates(c)
    \/ \E c \in Peers : RouterJoins(c)
    \/ RouterRemoves
    \/ \E id \in LobbyIds : LobbyStarts(id)
    \/ \E id \in LobbyIds : LobbyConnects(id)
    \/ \E id \in LobbyIds : LobbyDisconnected(id)
    \/ \E id \in LobbyIds : LobbyPicks(id)
    \/ \E id \in LobbyIds : LobbyShutdown(id)
    \/ \E id \in LobbyIds : SpawnedGameStarts(id)
    \/ \E id \in LobbyIds : SpawnedGameReceives(id)
    \/ \E c \in Peers : PeerReceives(c)
    \/ \E c \in Peers : PeerStops(c)
    \/ \E c \in Peers : PeerDrops(c)
    \/ \E c \in Peers : PeerPicks(c)

SpecLobby == InitLobby /\ [][NextLobby]_vars

\* A host and two candidates for its lobby of two, and time.
InitSync ==
    /\ LET new == Game_new(None, GameConfig_from_partial(NoDelta), U32_MAX, None)
       IN  /\ stage = new.stage
           /\ round = new.round
           /\ config = new.config
           /\ restart_requests = new.restart_requests
    /\ timers = {}
    /\ run = "created"
    /\ last = [op |-> "new"]
    /\ ops = 0
    /\ conn = [p \in Player |-> Player_picked]
    /\ mailbox = <<>>
    /\ NoLobbies
    /\ \E x \in LobbyInputs :
          /\ x.arriving # Hosts
          /\ x.app_config.max_players = 2
          /\ peer = [c \in Peers |-> IF c \in x.arriving THEN Player_new
                                      ELSE [Player_new EXCEPT !.state = "never"]]
          /\ app_config = x.app_config

\* Nobody is picked: the steps of the lobbies without PeerPicks and what
\* follows from it, and with the timers and the clock.
NextSync ==
    \/ \E c \in Peers : RouterCreates(c)
    \/ \E c \in Peers : RouterJoins(c)
    \/ RouterRemoves
    \/ \E id \in LobbyIds : LobbyStarts(id)
    \/ \E id \in LobbyIds : LobbyConnects(id)
    \/ \E id \in LobbyIds : LobbyDisconnected(id)
    \/ \E c \in Peers : PeerReceives(c)
    \/ \E c \in Peers : PeerStops(c)
    \/ \E c \in Peers : PeerDrops(c)
    \/ \E a \in LobbyIds : LobbySyncs(a)
    \/ LobbyTick

\* The timers of the lobbies fire, and time goes on.
SpecSync ==
    /\ InitSync
    /\ [][NextSync]_vars
    /\ \A a \in LobbyIds : WF_vars(LobbySyncs(a))
    /\ WF_vars(LobbyTick)

TypeOK ==
    /\ stage.kind \in {"PlayerSelection", "InGame"}
    /\ is_u32(round)
    /\ run \in {"created", "running", "stopped"}

(***************************************************************************)
(* Properties of the session                                               *)
(***************************************************************************)

\* The futures on the context that run on_timeout, and those that expire the
\* restart request of player p.
TurnTimers == {t \in timers : t.callback = "on_timeout"}
RequestTimers(p) == {t \in timers : t.callback = request_timeout_callback(p)}

\* The state right after an end-turn (a client's, or the one on_timeout makes
\* up) that went through.
AfterAcceptedEndTurn == last.op \in {"EndTurn", "on_timeout"} /\ last.accepted

\* The step is an end-turn that went through.
AcceptedEndTurnStep == last'.op \in {"EndTurn", "on_timeout"} /\ last'.accepted

\* (n + 1) mod 2^32 on the two halves of n.
succ_mod_2_32(n) ==
    [hi |-> IF n.lo = HALF - 1 THEN (n.hi + 1) % HALF ELSE n.hi,
     lo |-> (n.lo + 1) % HALF]

\* C1: at most one turn timer is armed; while one is armed the session is
\* InGame with no result set, and the timer was armed in the current round at
\* the current turn index (so it can only force a pass of that turn).
C1_OneTurnTimer ==
    /\ Cardinality(TurnTimers) <= 1
    /\ \A t \in TurnTimers :
          /\ stage.kind = "InGame"
          /\ is_none(stage.game.state.result)
          /\ t.armed = [round |-> round, turn |-> stage.game.state.turn]

\* C1 witness: a turn timer fired, forced a pass, and the timer of the next
\* turn is armed.
C1_Witness ==
    /\ last.op = "on_timeout"
    /\ last.accepted
    /\ TurnTimers # {}

\* C2: an end-turn request that does not pass the handler's tests (InGame,
\* sent by the current player's connection, current turn index, move accepted
\* by the board) leaves stage, round, config, restart requests and timers as
\* they were, and the session running.
C2_RejectedEndTurnChangesNothing ==
    [][(last'.op = "EndTurn" /\ ~last'.accepted)
         => /\ stage' = stage
            /\ round' = round
            /\ config' = config
            /\ restart_requests' = restart_requests
            /\ timers' = timers
            /\ run' = "running"]_vars

\* C2 witness: an end-turn request was dropped in a round with a turn timer
\* armed.
C2_Witness ==
    /\ last.op = "EndTurn"
    /\ ~last.accepted
    /\ stage.kind = "InGame"
    /\ is_some(stage.timeout)
    /\ run = "running"

\* No actor has a message left to handle.
Quiet ==
    /\ run # "created"
    /\ run = "running" => mailbox = <<>>
    /\ \A p \in Player : conn[p].mailbox = <<>>

\* A forced disconnect with reason GameEnded was sent to p and reached it.
GameEndedSentTo(p) ==
    \/ conn[p].closed = Some("GameEnded")
    \/ \E k \in 1 .. Len(conn[p].mailbox) :
           conn[p].mailbox[k] = [type |-> "Disconnect", reason |-> "GameEnded"]

\* C3 as stated: once the connection of a player of the running session has
\* ended on its own and every message has been handled, the session has
\* stopped and the other connection, unless it ended too, was sent the forced
\* disconnect GameEnded.
C3_AsStated ==
    \A p \in Player :
        (conn[p].left = "running" /\ Quiet)
          => /\ run = "stopped"
             /\ conn[other(p)].left # "no" \/ GameEndedSentTo(other(p))

\* C4: when the turn timer fires, the current player passes: the grid is
\* untouched, the turn index grows by one, the other player is to move, and
\* the time banked for the player who timed out is zero.
C4_TimeoutIsAPass ==
    [][(last'.op = "on_timeout")
         => /\ stage.kind = "InGame"
            /\ stage'.kind = "InGame"
            /\ stage'.game.field = stage.game.field
            /\ stage'.game.state.last_move = None
            /\ stage'.game.state.turn = stage.game.state.turn + 1
            /\ stage'.game.state.player = other(stage.game.state.player)
            /\ stage'.extra_time[stage.game.state.player] = 0]_vars

\* C4 witness: a turn timer fired after its deadline had passed.
C4_Witness ==
    /\ last.op = "on_timeout"
    /\ stage.kind = "InGame"
    /\ stage.game.state.last_move = None
    /\ stage.extra_time[other(stage.game.state.player)] = 0

\* C5 as amended: after an accepted end-turn that leaves the round without a
\* result, the timer armed for the player to move lasts
\* min(bank + time_per_turn, max(time_cap, time_per_turn)); none is armed when
\* time_per_turn is below TIME_PER_TURN_MIN.
C5_TimerDuration ==
    (AfterAcceptedEndTurn /\ is_none(stage.game.state.result))
      => IF config.time_per_turn < TIME_PER_TURN_MIN
         THEN is_none(stage.timeout) /\ TurnTimers = {}
         ELSE /\ is_some(stage.timeout)
              /\ unwrap(stage.timeout).instant =
                     now + Min(stage.extra_time[stage.game.state.player] + config.time_per_turn,
                               Max(config.time_cap, config.time_per_turn))
              /\ \E t \in TurnTimers : t.at = unwrap(stage.timeout).instant

\* C5 witness: a timer armed under a cap below the per-turn time.
C5_Witness ==
    /\ AfterAcceptedEndTurn
    /\ is_none(stage.game.state.result)
    /\ config.time_cap < config.time_per_turn
    /\ is_some(stage.timeout)

\* C5 as stated: the timer lasts min(bank + time_per_turn, time_cap), also
\* when time_cap < time_per_turn.
C5_AsStated ==
    (AfterAcceptedEndTurn /\ is_none(stage.game.state.result))
      => IF config.time_per_turn < TIME_PER_TURN_MIN
         THEN is_none(stage.timeout) /\ TurnTimers = {}
         ELSE /\ is_some(stage.timeout)
              /\ unwrap(stage.timeout).instant =
                     now + Min(stage.extra_time[stage.game.state.player] + config.time_per_turn,
                               config.time_cap)

\* C6: an accepted end-turn at turn index t leaves the opponent's bank as it
\* was; the mover's bank is unchanged if t = 0, and otherwise becomes the time
\* that remained on the turn timer (zero if none was armed or it was overdue).
C6_BankOnEndTurn ==
    [][AcceptedEndTurnStep
         => /\ stage'.extra_time[other(stage.game.state.player)]
                  = stage.extra_time[other(stage.game.state.player)]
            /\ stage.game.state.turn = 0
                  => stage'.extra_time[stage.game.state.player]
                         = stage.extra_time[stage.game.state.player]
            /\ stage.game.state.turn > 0
                  => stage'.extra_time[stage.game.state.player]
                         = IF is_some(stage.timeout)
                           THEN Max(unwrap(stage.timeout).instant - now, 0)
                           ELSE 0]_vars

\* C6 witness: the mover of an accepted end-turn past turn 0 banked time that
\* remained on the timer.
C6_Witness ==
    /\ last.op = "EndTurn"
    /\ last.accepted
    /\ stage.game.state.turn >= 2
    /\ stage.extra_time[other(stage.game.state.player)] > 0

\* C7 as stated: a restart request with no delta, in a round without a result
\* and while the opponent's request is pending, restarts the round.
C7_AsStated ==
    [][(/\ last'.op = "Restart"
        /\ last'.delta = "absent"
        /\ stage.kind = "InGame"
        /\ is_none(stage.game.state.result)
        /\ is_some(restart_requests[other(last'.player)]))
         => /\ stage' = PlayerSelectionStage_new
            /\ round' = succ_mod_2_32(round)]_vars

\* C8 as amended: a restart request in a round with a result restarts the
\* round and makes no pending request if it carries no delta or one that
\* leaves the config as it is; with a delta that changes the config it makes a
\* pending request for the changed config and the round is not restarted.
C8_RestartAfterResult ==
    [][(last'.op = "Restart" /\ is_game_over(stage))
         => IF last'.delta = "changed"
            THEN /\ stage' = stage
                 /\ round' = round
                 /\ config' = config
                 /\ is_some(restart_requests'[last'.player])
                 /\ is_some(unwrap(restart_requests'[last'.player]).config)
                 /\ unwrap(unwrap(restart_requests'[last'.player]).config) # config
            ELSE /\ stage' = PlayerSelectionStage_new
                 /\ round' = succ_mod_2_32(round)
                 /\ \A p \in Player : restart_requests'[p] \in {restart_requests[p], None}]_vars

\* C8 witness: a request that changes the config, made in a round with a
\* result, is pending.
C8_Witness ==
    /\ last.op = "Restart"
    /\ last.delta = "changed"
    /\ is_game_over(stage)
    /\ is_some(restart_requests[last.player])

\* C8 as stated: a restart request in a round with a result restarts the
\* round and makes no pending request, whatever its delta.
C8_AsStated ==
    [][(last'.op = "Restart" /\ is_game_over(stage))
         => /\ stage' = PlayerSelectionStage_new
            /\ round' = succ_mod_2_32(round)
            /\ \A p \in Player : restart_requests'[p] \in {restart_requests[p], None}]_vars

\* The step is a restart request of a player whose pending request has the
\* same target config, in a round that the request does not restart.
RepeatedRequestStep ==
    /\ last'.op = "Restart"
    /\ last'.repeat
    /\ ~(is_game_over(stage) /\ last'.delta # "changed")

RestartStep ==
    \/ last'.op = "RestartResponse" /\ last'.accepted
    \/ last'.op = "Restart" /\ is_game_over(stage) /\ last'.delta # "changed"
    \/ round' # round
    \/ stage.kind = "InGame" /\ stage'.kind # "InGame"

\* C10: a restart sets the round counter to (round + 1) mod 2^32, leaves no
\* turn timer armed and resets the stage; the round that then begins has an
\* empty board at turn 0, both banks zero and no timer.
C10_Restart ==
    [][/\ RestartStep
            => /\ round' = succ_mod_2_32(round)
               /\ TurnTimers' = {}
               /\ stage' = PlayerSelectionStage_new
       /\ (stage.kind = "PlayerSelection" /\ stage'.kind = "InGame")
            => /\ stage'.game.field = EMPTY_FIELD
               /\ stage'.game.state.turn = 0
               /\ is_none(stage'.game.state.result)
               /\ stage'.extra_time = ZeroTime
               /\ is_none(stage'.timeout)
               /\ TurnTimers' = {}
               /\ round' = round]_vars

\* C10 witness: the round counter wrapped around from 2^32 - 1 and the next
\* round has begun.
C10_Witness ==
    /\ last.op = "PlayerSelectionVote"
    /\ stage.kind = "InGame"
    /\ stage.game.field = EMPTY_FIELD
    /\ round = u32(0, 0)

\* C11: a restart-response with accepted = false from player X removes the
\* pending request of X's opponent and its expiry timer; stage, round, config,
\* the other timers and X's own request stay as they were.
C11_RejectClearsOpponentRequest ==
    [][(last'.op = "RestartResponse" /\ ~last'.accepted)
         => /\ restart_requests'[other(last'.player)] = None
            /\ \A t \in timers' : t.callback # request_timeout_callback(other(last'.player))
            /\ timers' = {t \in timers :
                              t.callback # request_timeout_callback(other(last'.player))}
            /\ restart_requests'[last'.player] = restart_requests[last'.player]
            /\ stage' = stage
            /\ round' = round
            /\ config' = config
            /\ run' = "running"]_vars

\* C11 witness: X rejected the opponent's request (both connections were told)
\* while X's own request was pending, and X's request is still pending.
C11_Witness ==
    /\ last.op = "RestartResponse"
    /\ ~last.accepted
    /\ last.sent # <<>>
    /\ is_none(restart_requests[other(last.player)])
    /\ is_some(restart_requests[last.player])
    /\ RequestTimers(last.player) # {}

\* C12: while the session runs a player's request is pending exactly while a
\* timer that expires it is armed, and that timer is the one the pending
\* request holds (no timer of an earlier request of the player is left); an
\* expiry that fires removes the request of its player and its own timer and
\* changes nothing else.
C12_RequestLivesWithItsTimer ==
    [][/\ run' = "running"
            => \A p \in Player :
                  /\ is_some(restart_requests'[p]) <=> RequestTimers(p)' # {}
                  /\ \A t \in RequestTimers(p)' :
                        t.handle = unwrap(restart_requests'[p]).handle
       /\ last'.op = "on_request_timeout"
            => /\ restart_requests'[last'.player] = None
               /\ restart_requests'[other(last'.player)] = restart_requests[other(last'.player)]
               /\ timers' \subseteq timers
               /\ Cardinality(timers') = Cardinality(timers) - 1
               /\ \A t \in timers \ timers' : t.callback = request_timeout_callback(last'.player)
               /\ stage' = stage
               /\ round' = round
               /\ config' = config
               /\ run' = "running"]_vars

\* C12 witness: the request of a player expired while the opponent's request
\* was pending, and the opponent's request is still pending.
C12_Witness ==
    /\ last.op = "on_request_timeout"
    /\ last.sent # <<>>
    /\ is_none(restart_requests[last.player])
    /\ is_some(restart_requests[other(last.player)])
    /\ RequestTimers(other(last.player)) # {}

\* Among the messages `sent`, connection `to` is sent m1 and later m2, and m2
\* not before m1.
SentBefore(sent, to, m1, m2) ==
    \E i, j \in 1 .. Len(sent) :
        /\ i < j
        /\ sent[i] = [to |-> to, msg |-> m1]
        /\ sent[j] = [to |-> to, msg |-> m2]
        /\ \A k \in 1 .. i : sent[k] # [to |-> to, msg |-> m2]

\* C13: when a response accepts a pending request that carries a config, the
\* session config becomes that config and each connection is sent the
\* game-setup message with it before the state message of the restarted round.
C13_ConfigBeforeSync ==
    [][(/\ last'.op = "RestartResponse"
        /\ last'.accepted
        /\ is_some(restart_requests[other(last'.player)])
        /\ is_some(unwrap(restart_requests[other(last'.player)]).config))
         => /\ config' = unwrap(unwrap(restart_requests[other(last'.player)]).config)
            /\ \A p \in Player :
                  SentBefore(last'.sent, addrs[p],
                             [type |-> "gameSetup", config |-> config'],
                             outgoing_message(stage', round'))]_vars

\* C13 witness: an accepted response made the session config the one its
\* game-setup message carries, and the round was restarted.
C13_Witness ==
    /\ last.op = "RestartResponse"
    /\ last.accepted
    /\ stage = PlayerSelectionStage_new
    /\ \E k \in 1 .. Len(last.sent) :
           last.sent[k].msg = [type |-> "gameSetup", config |-> config]

\* The vote recorded for a side in a PlayerSelection stage.
vote_of(st, p) == IF p = P1 THEN st.p1_vote ELSE st.p2_vote

\* The side that sent the vote the last step handled, if a player sent it.
voter(l) == get_player(unwrap(l.vote).player)

\* C14: within one PlayerSelection stage (no restart replaces it) a recorded
\* vote never changes; a vote of a side that has voted or of a connection that
\* is no player changes nothing; a first vote of a side is recorded, and the
\* session moves to InGame, with an empty board, exactly on the vote that
\* makes both sides' votes recorded.
C14_Votes ==
    [][(stage.kind = "PlayerSelection" /\ round' = round)
         => /\ stage'.kind = "PlayerSelection"
                 => \A p \in Player :
                       is_some(vote_of(stage, p)) => vote_of(stage', p) = vote_of(stage, p)
            /\ stage'.kind = "InGame"
                 => /\ last'.op = "PlayerSelectionVote"
                    /\ is_some(voter(last'))
                    /\ is_none(vote_of(stage, unwrap(voter(last'))))
                    /\ is_some(vote_of(stage, other(unwrap(voter(last')))))
                    /\ stage'.game.field = EMPTY_FIELD
                    /\ stage'.game.state.turn = 0
            /\ last'.op = "PlayerSelectionVote"
                 => IF is_none(voter(last')) \/ is_some(vote_of(stage, unwrap(voter(last'))))
                    THEN stage' = stage /\ last'.sent = <<>>
                    ELSE IF is_some(vote_of(stage, other(unwrap(voter(last')))))
                    THEN stage'.kind = "InGame"
                    ELSE /\ stage'.kind = "PlayerSelection"
                         /\ vote_of(stage', unwrap(voter(last')))
                                = Some(unwrap(last'.vote).wants_to_start)
                         /\ is_none(vote_of(stage', other(unwrap(voter(last')))))]_vars

\* C14 witness: a side that had voted sent the opposite vote and the recorded
\* vote stayed.
C14_Witness ==
    /\ last.op = "PlayerSelectionVote"
    /\ last.sent = <<>>
    /\ stage.kind = "PlayerSelection"
    /\ is_some(last.vote)
    /\ is_some(voter(last))
    /\ vote_of(stage, unwrap(voter(last))) = Some(~unwrap(last.vote).wants_to_start)

\* The vote of side p once the vote msg is recorded over the votes st.
vote_with(st, msg, p) ==
    IF is_some(vote_of(st, p)) THEN unwrap(vote_of(st, p)) ELSE msg.wants_to_start

\* C15: when the second vote starts the round and exactly one side voted
\* ready, that side is the starting player and the player to move; when both
\* or neither voted ready the coin decides between the two sides.
C15_StartingPlayer ==
    [][(stage.kind = "PlayerSelection" /\ stage'.kind = "InGame")
         => /\ stage'.game.state.player = stage'.game.rules.starting_player
            /\ stage'.game.rules.starting_player \in Player
            /\ \A p \in Player :
                  (/\ vote_with(stage, unwrap(last'.vote), p)
                   /\ ~vote_with(stage, unwrap(last'.vote), other(p)))
                     => stage'.game.rules.starting_player = p]_vars

\* C15 witness: P1 alone voted ready, P2's vote came second, and P1 starts.
C15_Witness ==
    /\ last.op = "PlayerSelectionVote"
    /\ stage.kind = "InGame"
    /\ is_some(last.seen)
    /\ unwrap(last.seen).p1_vote = Some(TRUE)
    /\ unwrap(last.vote) = [player |-> addrs[P2], wants_to_start |-> FALSE]
    /\ stage.game.state.player = P1
    /\ stage.game.state.turn = 0

(***************************************************************************)
(* Properties of the lobbies and the registry                              *)
(***************************************************************************)

\* The step is the Lobby of id handling ConnectPlayer.
ConnectPlayerStep(id) == last'.op = "ConnectPlayer" /\ last'.lobby = id

\* C16: the candidate map of a Lobby never holds more than max_players
\* candidates, and a ConnectPlayer handled while the map holds max_players
\* sends the connection Disconnect::LobbyFull (and nothing else) and leaves
\* the map as it was.
C16_LobbyCapacity ==
    /\ [](\A id \in LobbyIds : Cardinality(lobby[id].players) <= app_config.max_players)
    /\ [][\A id \in LobbyIds :
            ConnectPlayerStep(id)
                /\ Cardinality(lobby[id].players) = app_config.max_players
            => /\ last'.sent = <<[to |-> last'.player,
                                  msg |-> [type |-> "Disconnect", reason |-> "LobbyFull"]]>>
               /\ lobby'[id].players = lobby[id].players
               /\ lobby'[id].run = "running"]_vars

\* A connection was turned away with LobbyFull by a Lobby whose map is full.
C16_Witness ==
    /\ last.op = "ConnectPlayer"
    /\ last.sent = <<[to |-> last.player,
                      msg |-> [type |-> "Disconnect", reason |-> "LobbyFull"]]>>
    /\ Cardinality(lobby[last.lobby].players) = app_config.max_players
    /\ app_config.max_players > 0
    /\ peer[last.player].mailbox # <<>>

\* No actor of the lobbies has a message left to handle, and every Lobby
\* that was made has started.
LobbyQuiet ==
    /\ router_mailbox = <<>>
    /\ \A id \in LobbyIds : lobby[id].run # "created" /\ lobby[id].mailbox = <<>>
    /\ \A id \in LobbyIds : lobby[id].game_run # "created" /\ lobby[id].game_mailbox = <<>>
    /\ \A c \in Peers : peer[c].mailbox = <<>>

\* The connection of c has ended on its own (no controller closed it).
LeftOnItsOwn(c) ==
    /\ peer[c].state \in {"stopped", "dropped"}
    /\ ~peer[c].disconnected_by_controller

\* C17 as stated: once the host connection of a Lobby that picked no player
\* has ended on its own and every message has been handled, the Lobby has
\* stopped, its entry is gone from the registry, and no candidate of its map
\* is still connected without having been sent LobbyClosed.
C17_AsStated ==
    \A id \in LobbyIds :
        (/\ lobby[id].run # "none"
         /\ is_none(lobby[id].game)
         /\ LeftOnItsOwn(lobby[id].host)
         /\ LobbyQuiet)
          => /\ lobby[id].run = "stopped"
             /\ \A e \in lobbies : e.addr # id
             /\ \A e \in lobby[id].players :
                    peer[e.player].closed = Some("LobbyClosed") \/ LeftOnItsOwn(e.player)

\* The step is the Lobby of id, which has picked no player, handling the
\* Disconnected of a connection that is not its host.
CandidateDisconnectedStep(id) ==
    /\ last'.op = "Lobby_Disconnected"
    /\ last'.lobby = id
    /\ last'.addr # lobby[id].host
    /\ is_none(lobby[id].game)

\* C18 as stated: when a Lobby has handled the Disconnected of a candidate,
\* no code of its map belongs to that candidate any more, and the codes of
\* the candidates whose connection is still there are in the map as before.
C18_AsStated ==
    [][\A id \in LobbyIds :
          CandidateDisconnectedStep(id)
            => /\ \A e \in lobby'[id].players : e.player # last'.addr
               /\ \A e \in lobby[id].players :
                      peer[e.player].state = "running" => e \in lobby'[id].players]_vars

\* The step is the Lobby of id handling IncomingPickPlayer.
PickPlayerStep(id) == last'.op = "IncomingPickPlayer" /\ last'.lobby = id

\* The Game the Lobby with host `host` is to start when the candidate
\* `player` is picked for `role`.
PickedGame(host, player, role) ==
    IF role = P1 THEN [p1 |-> player, p2 |-> host] ELSE [p1 |-> host, p2 |-> player]

\* C19: a pick-player for a code of the map starts one Game whose P1 and P2
\* are the picked candidate and the host as the role says, and the Lobby
\* stops: every other candidate of the map is sent Disconnect::GameStarted,
\* the host and the picked candidate are sent nothing.  A pick-player for a
\* code that is not in the map starts no Game, sends nothing and leaves the
\* Lobby running as it was.
C19_PickPlayer ==
    [][\A id \in LobbyIds :
          PickPlayerStep(id)
            => IF \E e \in lobby[id].players : e.code = last'.code
               THEN \E e \in lobby[id].players :
                       /\ e.code = last'.code
                       /\ last'.spawned = <<PickedGame(lobby[id].host, e.player, last'.role)>>
                       /\ lobby'[id].game = Some(PickedGame(lobby[id].host, e.player,
                                                            last'.role))
                       /\ lobby'[id].run = "stopped"
                       /\ \A o \in lobby[id].players \ {e} :
                              \E k \in 1 .. Len(last'.sent) :
                                  last'.sent[k] = [to |-> o.player,
                                                   msg |-> [type |-> "Disconnect",
                                                            reason |-> "GameStarted"]]
                       /\ \A k \in 1 .. Len(last'.sent) :
                              last'.sent[k].to \notin {lobby[id].host, e.player}
               ELSE /\ last'.spawned = <<>>
                    /\ last'.sent = <<>>
                    /\ lobby'[id] = [lobby[id] EXCEPT !.mailbox = Tail(@)]
                    /\ lobby'[id].run = "running"]_vars

\* A candidate was picked while another one was in the map: the Game was
\* started and the other one was sent GameStarted.
C19_Witness ==
    /\ last.op = "IncomingPickPlayer"
    /\ Len(last.spawned) = 1
    /\ lobby[last.lobby].run = "stopped"
    /\ \E k \in 1 .. Len(last.sent) :
           /\ last.sent[k].msg = [type |-> "Disconnect", reason |-> "GameStarted"]
           /\ last.sent[k].to \in Candidates
           /\ last.sent[k].to \notin {last.spawned[1].p1, last.spawned[1].p2}

\* C20: the registry never holds more than max_lobbies entries, and a
\* CreateLobby handled while it holds max_lobbies sends the connection
\* Disconnect::ServerMaxLobbies (and nothing else), makes no Lobby and leaves
\* the registry as it was.
C20_RegistryCapacity ==
    /\ [](Cardinality(lobbies) <= app_config.max_lobbies)
    /\ [][last'.op = "CreateLobby" /\ Cardinality(lobbies) >= app_config.max_lobbies
            => /\ last'.sent = <<[to |-> last'.host,
                                  msg |-> [type |-> "Disconnect",
                                           reason |-> "ServerMaxLobbies"]]>>
               /\ last'.spawned = <<>>
               /\ lobbies' = lobbies
               /\ lobby' = lobby]_vars

\* A connection was turned away with ServerMaxLobbies by a registry that is
\* full.
C20_Witness ==
    /\ last.op = "CreateLobby"
    /\ last.sent = <<[to |-> last.host,
                      msg |-> [type |-> "Disconnect", reason |-> "ServerMaxLobbies"]]>>
    /\ Cardinality(lobbies) = app_config.max_lobbies
    /\ app_config.max_lobbies > 0
    /\ peer[last.host].mailbox # <<>>

\* C21 as stated: a CreateLobby leaves every entry of the registry in place
\* (a drawn id that is taken is drawn again), and a ConnectPlayer leaves every
\* code of the candidate map in place.
C21_AsStated ==
    [][/\ last'.op = "CreateLobby" => \A e \in lobbies : e \in lobbies'
       /\ \A id \in LobbyIds :
              ConnectPlayerStep(id) => \A e \in lobby[id].players : e \in lobby'[id].players]_vars

\* C22 as stated: once every message has been handled, a connection that
\* came with a lobby id and is still there is a member of a Lobby (it was
\* attached and given its code); one that is not was closed with a reason.
C22_AsStated ==
    \A c \in Candidates :
        (LobbyQuiet /\ peer[c].state = "running") => is_some(peer[c].controller)

\* The router handles the messages of its mailbox.
SpecLobbyLive == SpecLobby /\ WF_vars(RouterRemoves)

\* The step is the router handling a RemoveLobby for an id that is no key of
\* the registry.
RemoveAbsentStep ==
    /\ last'.op = "RemoveLobby"
    /\ \A e \in lobbies : e.id # last'.id

\* C23: the entry of a Lobby that has stopped is removed from the registry in
\* the end, and a RemoveLobby for an id that is not in the registry leaves the
\* registry and every Lobby as they were and sends nothing.
C23_StoppedLobbyRemoved ==
    /\ \A a \in LobbyIds :
           (lobby[a].run = "stopped") ~> (\A e \in lobbies : e.addr # a)
    /\ [][RemoveAbsentStep
            => /\ lobbies' = lobbies
               /\ lobby' = lobby
               /\ last'.sent = <<>>]_vars

\* A RemoveLobby for an id that is not in the registry was handled, and no
\* Lobby that has stopped is in the registry.
C23_Witness ==
    /\ last.op = "RemoveLobby"
    /\ \A e \in lobbies : e.id # last.id
    /\ \E a \in LobbyIds : lobby[a].run = "stopped" /\ lobby[a].id = last.id
    /\ \A a \in LobbyIds : lobby[a].run = "stopped" => \A e \in lobbies : e.addr # a

\* The Disconnected messages of the Player actor of c that wait in the
\* mailbox of a Lobby or of a Game.
NotesFrom(c) ==
    Len(SelectSeq(lobby["L1"].mailbox \o lobby["L1"].game_mailbox
                    \o lobby["L2"].mailbox \o lobby["L2"].game_mailbox,
                  LAMBDA m : m.type = "Disconnected" /\ m.addr = c))

\* C24: a Player actor that handles the Disconnect of its controller stops
\* and sends no Disconnected; one that stops for another reason sends one
\* Disconnected, to the controller it has then, or nothing if it has none;
\* and a Player actor that has stopped sends nothing and stays stopped.
C24_DisconnectedOnce ==
    [][\A c \in Peers :
          /\ (last'.op = "PeerReceives" /\ last'.player = c /\ last'.type = "Disconnect")
                => /\ peer'[c].state = "stopped"
                   /\ peer'[c].disconnected_by_controller
                   /\ last'.sent = <<>>
                   /\ NotesFrom(c)' = NotesFrom(c)
          /\ (last'.op = "PeerStops" /\ last'.player = c)
                => /\ ~peer[c].disconnected_by_controller
                   /\ last'.sent = IF is_none(peer[c].controller) THEN <<>>
                                   ELSE <<[to |-> unwrap(peer[c].controller),
                                           msg |-> [type |-> "Disconnected", addr |-> c]]>>
                   /\ NotesFrom(c)' <= NotesFrom(c) + 1
          /\ NotesFrom(c)' > NotesFrom(c)
                => /\ last'.op = "PeerStops" /\ last'.player = c
                   /\ peer[c].state = "running"
          /\ peer[c].state \in {"stopped", "dropped"}
                => peer'[c].state \in {"stopped", "dropped"}]_vars

\* One Player actor stopped on the Disconnect of the Lobby it had as its
\* controller, and another, with a Game as its controller, has just stopped
\* with its connection and told the Game.
C24_Witness ==
    /\ \E c \in Peers : /\ peer[c].disconnected_by_controller
                        /\ is_left(peer[c].controller)
    /\ last.op = "PeerStops"
    /\ is_right(peer[last.player].controller)
    /\ NotesFrom(last.player) = 1

\* The step is the Player actor of c handling an AttachController.
AttachStep(c) ==
    /\ last'.op = "PeerReceives"
    /\ last'.player = c
    /\ last'.type = "AttachController"

\* C26: a Player actor gets an AttachController of a Lobby only while it has
\* no controller and one of a Game only while it has a Lobby as its
\* controller, and its controller changes in no other step: the controllers
\* it has over its life are a prefix of a Lobby, then a Game.
C26_ControllerOrder ==
    [][\A c \in Peers :
          /\ AttachStep(c)
                => \/ is_none(peer[c].controller) /\ is_left(peer'[c].controller)
                   \/ is_left(peer[c].controller) /\ is_right(peer'[c].controller)
          /\ peer'[c].controller # peer[c].controller => AttachStep(c)]_vars

\* A Player actor that had a Lobby as its controller has just got a Game as
\* its controller.
C26_Witness ==
    /\ last.op = "PeerReceives"
    /\ last.type = "AttachController"
    /\ is_right(peer[last.player].controller)

----------------------------------------------------------------------------
\* One Player actor and its client, with what it is sent by the controllers
\* it gets: a Lobby first, a Game after it (C26).  Time passes in units of
\* heartbeat_interval.

TheUnit == "h1"

PlayerCommit(pl, op, sent) ==
    /\ peer' = [peer EXCEPT ![TheUnit] = pl]
    /\ last' = op @@ [player |-> TheUnit, sent |-> sent]
    /\ UNCHANGED <<lobbies, router_mailbox, lobby, app_config>>
    /\ UNCHANGED session_vars

\* Handler<AttachController>.
PlayerAttached ==
    /\ peer[TheUnit].state = "running"
    /\ \E controller \in IF is_none(peer[TheUnit].controller) THEN LobbyIds
                         ELSE IF is_left(peer[TheUnit].controller) THEN Games ELSE {} :
          PlayerCommit(Player_handle(peer[TheUnit], [type |-> "AttachController",
                                                     controller |-> controller]),
                       [op |-> "AttachController"], <<>>)

\* StreamHandler of a text frame: Player::handle_text_message.
PlayerText ==
    /\ peer[TheUnit].state = "running"
    /\ \E text \in Texts :
          PlayerCommit(handle_text_message(peer[TheUnit], TheUnit, text).pl,
                       [op |-> "text", text |-> text],
                       handle_text_message(peer[TheUnit], TheUnit, text).sent)

\* Handler<Disconnect>, then Actor::stopped.
PlayerDisconnect ==
    /\ peer[TheUnit].state = "running"
    /\ \E reason \in {"LobbyClosed", "GameEnded"} :
          LET pl == Player_handle(peer[TheUnit], [type |-> "Disconnect", reason |-> reason])
          IN  PlayerCommit(pl, [op |-> "Disconnect"], Player_stopped(pl, TheUnit))

\* StreamHandler of a close frame or of a protocol error, then Actor::stopped.
PlayerCloses ==
    /\ peer[TheUnit].state = "running"
    /\ PlayerCommit([peer[TheUnit] EXCEPT !.state = "stopped", !.mailbox = <<>>],
                    [op |-> "close"], Player_stopped(peer[TheUnit], TheUnit))

\* A heartbeat interval passes and the callback of Player::hb runs: the actor
\* stops if it has parsed no message for longer than heartbeat_timeout.
PlayerHeartbeat ==
    /\ peer[TheUnit].state = "running"
    /\ app_config.heartbeat_interval # 0 /\ app_config.heartbeat_timeout # 0
    /\ IF peer[TheUnit].hb + app_config.heartbeat_interval > app_config.heartbeat_timeout
       THEN PlayerCommit([peer[TheUnit] EXCEPT !.hb = @ + app_config.heartbeat_interval,
                                               !.state = "stopped", !.mailbox = <<>>],
                         [op |-> "hb"], Player_stopped(peer[TheUnit], TheUnit))
       ELSE PlayerCommit([peer[TheUnit] EXCEPT !.hb = @ + app_config.heartbeat_interval],
                         [op |-> "hb"], <<>>)

InitPlayer ==
    /\ LET new == Game_new(None, GameConfig_from_partial(NoDelta), U32_MAX, None)
       IN  /\ stage = new.stage
           /\ round = new.round
           /\ config = new.config
           /\ restart_requests = new.restart_requests
    /\ timers = {}
    /\ run = "created"
    /\ last = [op |-> "new"]
    /\ ops = 0
    /\ conn = [p \in Player |-> Player_picked]
    /\ mailbox = <<>>
    /\ NoLobbies
    /\ peer = [c \in Peers |-> IF c = TheUnit THEN [Player_new EXCEPT !.state = "running"]
                                ELSE [Player_new EXCEPT !.state = "never"]]
    /\ \E timeout \in {0, 1, 2} :
          app_config = [max_lobbies |-> 1, max_players |-> 2,
                        heartbeat_interval |-> 1, heartbeat_timeout |-> timeout]

NextPlayer ==
    \/ PlayerAttached
    \/ PlayerText
    \/ PlayerDisconnect
    \/ PlayerCloses
    \/ PlayerHeartbeat

SpecPlayer == InitPlayer /\ [][NextPlayer]_vars

\* The controller that a parsed text message is for.
ForLobby(text) == text.type = "lobbyPickPlayer"
ForGame(text) ==
    text.type \in {"gamePlayerSelectionVote", "gameEndTurn", "gameRestart",
                   "gameRestartResponse"}

\* The step is handle_text_message of a parsed message for a controller of a
\* kind that the Player actor does not have.
DroppedStep ==
    /\ last'.op = "text"
    /\ \/ ForLobby(last'.text) /\ ~is_left(peer[TheUnit].controller)
       \/ ForGame(last'.text) /\ ~is_right(peer[TheUnit].controller)

\* What handle_text_message sends goes to the controller the Player actor
\* has and is of the kind of that controller (or it is the pong for the
\* socket).
ForwardedToController ==
    last'.op = "text"
        => /\ \A i \in 1 .. Len(last'.sent) :
                 \/ last'.sent[i].to = "socket" /\ last'.text.type = "ping"
                 \/ /\ peer[TheUnit].controller = Some(last'.sent[i].to)
                    /\ ForLobby(last'.text) => is_left(peer[TheUnit].controller)
                    /\ ForGame(last'.text) => is_right(peer[TheUnit].controller)
                    /\ ForLobby(last'.text) \/ ForGame(last'.text)
           /\ (ForLobby(last'.text) /\ is_left(peer[TheUnit].controller))
                 => Len(last'.sent) = 1
           /\ (ForGame(last'.text) /\ is_right(peer[TheUnit].controller))
                 => Len(last'.sent) = 1

\* C25 as it is stated: a parsed message for a controller of a kind that the
\* Player actor does not have is dropped and leaves the whole of the actor as
\* it was.
C25_AsStated ==
    [][/\ ForwardedToController
       /\ DroppedStep => last'.sent = <<>> /\ peer'[TheUnit] = peer[TheUnit]]_vars

\* C25: what handle_text_message sends goes to the controller the Player
\* actor has, game messages to a Game and pick-player to a Lobby only; a
\* parsed message for a controller of a kind it does not have is dropped, and
\* the actor keeps running with the controller and the flag it had, but hb is
\* set to the time of the message as for every parsed message.
C25_ForwardOrDrop ==
    [][/\ ForwardedToController
       /\ DroppedStep
             => /\ last'.sent = <<>>
                /\ peer'[TheUnit] = [peer[TheUnit] EXCEPT !.hb = now]
                /\ peer'[TheUnit].state = "running"]_vars

\* A pick-player was dropped by a Player actor that has a Game as its
\* controller.
C25_Witness ==
    /\ last.op = "text"
    /\ ForLobby(last.text)
    /\ is_right(peer[TheUnit].controller)
    /\ last.sent = <<>>
    /\ peer[TheUnit].state = "running"

\* The step is one of the Lobby at a in which it sends its host the list of
\* the players.
SyncSentStep(a) ==
    /\ last'.op \in {"ConnectPlayer", "Lobby_Disconnected", "sync_player_list"}
    /\ last'.lobby = a
    /\ \E i \in 1 .. Len(last'.sent) : last'.sent[i].msg.type = "LobbySync"

\* The step is one of the Lobby at a in which a player is put into or taken
\* out of its players.
PlayersChangedStep(a) ==
    /\ last'.op \in {"ConnectPlayer", "Lobby_Disconnected"}
    /\ last'.lobby = a
    /\ lobby'[a].players # lobby[a].players

\* C27: a Lobby has at most one timer of run_later pending; it sends its host
\* the list of the players no sooner than PLAYER_LIST_SYNC_DEBOUNCE after
\* last_update, which is when it sent the list before, and the list is that
\* of the players it has then; a step that changes the players sends the
\* list, has the timer pending or stops the Lobby; and a pending timer leads
\* to the list being sent or to the Lobby stopping.
C27_PlayerListSync ==
    /\ [](\A a \in LobbyIds : Len(lobby[a].run_later) <= 1)
    /\ [][\A a \in LobbyIds :
             /\ SyncSentStep(a)
                   => /\ now - lobby[a].player_list_sync.last_update
                            >= PLAYER_LIST_SYNC_DEBOUNCE
                      /\ \A i \in 1 .. Len(last'.sent) :
                            last'.sent[i].msg.type = "LobbySync"
                               => /\ last'.sent[i].to = lobby[a].host
                                  /\ last'.sent[i].msg.players =
                                        {e.code : e \in lobby'[a].players}
                      /\ lobby'[a].player_list_sync.last_update = now
             /\ PlayersChangedStep(a)
                   => \/ SyncSentStep(a)
                      \/ lobby'[a].run_later # <<>>
                      \/ lobby'[a].run = "stopped"]_vars
    /\ \A a \in LobbyIds :
          (lobby[a].run = "running" /\ lobby[a].run_later # <<>>)
             ~> \/ lobby[a].run = "stopped"
                \/ /\ last.op = "sync_player_list"
                   /\ last.lobby = a

\* The timer of a Lobby was due and the Lobby sent its host a list of two
\* players.
C27_Witness ==
    /\ last.op = "sync_player_list"
    /\ lobby[last.lobby].run = "running"
    /\ Len(last.sent) = 1
    /\ last.sent[1].msg.players = Codes
    /\ lobby[last.lobby].run_later = <<>>

----------------------------------------------------------------------------
\* The board engine by itself: Game::end_turn on the game of the stage, from
\* positions that moves from the empty board lead to.

\* The moves made in a run after the opening.
MaxMoves == 3

\* The openings (columns from 0): none; three moves short of the games of
\* the tests won_game_horizontal (with the move of drawn_game),
\* won_game_vertical, won_game_diagonal1, won_game_diagonal2, won_game_1,
\* won_game_2 (with the move of is_game_drawn_2) and filled_game.
Openings ==
    {<<>>,
     <<3, 3, 4, 4, 5>>,
     <<3, 4, 3, 4, 3>>,
     <<3, 4, 4, 6, 5, 5, 5, 5>>,
     <<3, 2, 2, 0, 1, 1, 1, 0>>,
     <<0, 1, 2, 3, 0, 1, 2, 3, 4, 4, 1, 1, 2, 3, 3>>,
     <<2, 3, 3, 3, 4, 4, 4, 5, 5>>,
     <<0, 1, 2, 3, 4, 5, 6, 0, 1, 2, 3, 4, 5, 6, 0, 1, 2, 3, 4, 5, 6, 1, 2, 3, 4, 5, 6,
       1, 4, 5, 6, 6, 0, 0, 1, 2, 3, 4, 5, 0, 0, 1, 2, 3, 4, 5>>}

\* fast_forward_game of the tests: the game after the moves.
RECURSIVE fast_forward_game(_, _)
fast_forward_game(game, moves) ==
    IF moves = <<>> THEN game
    ELSE CHOOSE r \in {fast_forward_game(g, Tail(moves)) :
                           g \in {end_turn_col(game, Head(moves)).game}} : TRUE

InitBoard ==
    /\ \E moves \in Openings, starter \in Player, draws \in BOOLEAN :
          stage = [kind |-> "InGame",
                   game |-> fast_forward_game(
                                InternalGame_new([starting_player |-> starter,
                                                  allow_draws |-> draws]),
                                moves),
                   extra_time |-> None,
                   timeout |-> None]
    /\ round = u32(0, 0)
    /\ config = GameConfig_from_partial(NoDelta)
    /\ restart_requests = [p \in Player |-> None]
    /\ timers = {}
    /\ run = "created"
    /\ last = [op |-> "new"]
    /\ ops = 0
    /\ conn = [p \in Player |-> Player_picked]
    /\ mailbox = <<>>
    /\ NoLobbies
    /\ peer = [c \in Peers |-> [Player_new EXCEPT !.state = "never"]]
    /\ app_config = [max_lobbies |-> 1, max_players |-> 2,
                     heartbeat_interval |-> 1, heartbeat_timeout |-> 2]

\* Game::end_turn with a column, which may be past the last.
BoardEndTurn(col) ==
    LET r == end_turn_col(stage.game, col)
    IN  /\ r.ok => ops < MaxMoves
        /\ stage' = [stage EXCEPT !.game = r.game]
        /\ ops' = IF r.ok THEN ops + 1 ELSE ops
        /\ last' = [op |-> "end_turn", col |-> col, ok |-> r.ok, err |-> r.err]
        /\ UNCHANGED <<round, config, restart_requests, timers, run, conn, mailbox>>
        /\ UNCHANGED lobby_vars

NextBoard == \E col \in 0 .. FIELD_SIZE : BoardEndTurn(col)

SpecBoard == InitBoard /\ [][NextBoard]_vars

\* The board engine with Game::from_raw_data: the moves that the game accepts,
\* and the rebuilding of a game from a grid.

\* The grid of the game, as it is or with the bottom slot of the column of
\* the last move emptied.
RawGrid(game, hole) ==
    IF hole /\ is_some(game.state.last_move)
    THEN [game.field EXCEPT ![unwrap(game.state.last_move)][FIELD_SIZE - 1] = None]
    ELSE game.field

\* Game::from_raw_data on a grid of the game of the stage, under rules of
\* either starting player; the game of the stage is not replaced.  The call
\* changes nothing that a later call reads, so a call after a call leads to
\* no state that one call does not lead to: calls follow a move or the opening.
BoardFromRawData(starter, hole) ==
    /\ last.op # "from_raw_data"
    /\ \E r \in {from_raw_data([stage.game.rules EXCEPT !.starting_player = starter],
                                RawGrid(stage.game, hole))} :
          last' = [op |-> "from_raw_data", starter |-> starter, hole |-> hole,
                   ok |-> r.ok, err |-> r.err, game |-> r.game]
    /\ UNCHANGED <<stage, ops, round, config, restart_requests, timers, run,
                   conn, mailbox>>
    /\ UNCHANGED lobby_vars

\* A move that the game accepts.
BoardMoves(col) == ops < MaxMoves /\ BoardEndTurn(col) /\ last'.ok

NextRaw ==
    \/ \E col \in Idx : BoardMoves(col)
    \/ \E starter \in Player, hole \in BOOLEAN : BoardFromRawData(starter, hole)

SpecRaw == InitBoard /\ [][NextRaw]_vars

\* Four cells in a line that go through (x, y) and all hold a chip of player.
RunThrough(field, x, y, player) ==
    \E d \in {<<1, 0>>, <<0, 1>>, <<1, 1>>, <<1, -1>>}, k \in 0 .. (WIN_LEN - 1) :
        \A j \in 0 .. (WIN_LEN - 1) :
            /\ x + (j - k) * d[1] \in Idx
            /\ y + (j - k) * d[2] \in Idx
            /\ field[x + (j - k) * d[1]][y + (j - k) * d[2]] = Some(player)

\* Player has four cells in a line somewhere.
HasRun(field, player) == \E x, y \in Idx : RunThrough(field, x, y, player)

BoardFull(field) == \A x, y \in Idx : is_some(field[x][y])

\* The row of the chip on top of column col.
TopRow(field, col) == lowest_empty(field, col, FIELD_SIZE - 1) + 1

\* The step is an end_turn that returned Ok.
MoveStep == last'.op = "end_turn" /\ last'.ok
\* C28: end_turn returns IndexOutOfBounds for a column past the last,
\* otherwise GameOver if the result is set, otherwise ColumnFilled if the
\* column is filled, and Ok otherwise; with each of the errors the game
\* (field, player, turn, last move, result) is as it was; and a result that
\* is set stays as it is.
C28_EndTurnErrors ==
    [][last'.op = "end_turn"
          => LET game == stage.game
                 col == last'.col
             IN  /\ last'.err =
                        IF col >= FIELD_SIZE THEN "IndexOutOfBounds"
                        ELSE IF is_some(game.state.result) THEN "GameOver"
                        ELSE IF is_some(game.field[col][0]) THEN "ColumnFilled"
                        ELSE ""
                 /\ last'.ok <=> last'.err = ""
                 /\ ~last'.ok => stage'.game = game
                 /\ is_some(game.state.result)
                       => stage'.game.state.result = game.state.result]_vars

\* end_turn has just returned GameOver for a column that is filled, of a game
\* whose result is set.
C28_Witness ==
    /\ last.op = "end_turn"
    /\ last.err = "GameOver"
    /\ is_some(stage.game.state.result)
    /\ is_some(stage.game.field[last.col][0])

\* C29: under allow_draws = false, an end_turn that returned Ok has set the
\* result if and only if the chip it placed is on four cells in a line that
\* all hold chips of the player who moved, or the board is filled; so a move
\* whose chip makes a line of three and no more sets no result.
C29_ResultIffRunOrFull ==
    [][(MoveStep /\ ~stage.game.rules.allow_draws)
          => LET player == stage.game.state.player
                 col == last'.col
                 row == lowest_empty(stage.game.field, col, FIELD_SIZE - 1)
             IN  is_some(stage'.game.state.result)
                    <=> \/ RunThrough(stage'.game.field, col, row, player)
                        \/ BoardFull(stage'.game.field)]_vars

\* Under allow_draws = false a move has just made a diagonal of four and the
\* result is set with the player who moved as the winner.
C29_Witness ==
    /\ last.op = "end_turn" /\ last.ok
    /\ ~stage.game.rules.allow_draws
    /\ is_some(stage.game.state.result)
    /\ LET col == last.col
           row == TopRow(stage.game.field, col)
           player == other(stage.game.state.player)
       IN  /\ unwrap(stage.game.state.result).winner = player
           /\ len_diagonal_tl_br(stage.game.field, col, row, player) >= WIN_LEN

\* The last move was one into a column and the chip it placed is on four
\* cells in a line that all hold chips of the player who made it.
LastMoveMadeRun(game) ==
    /\ is_some(game.state.last_move)
    /\ RunThrough(game.field, unwrap(game.state.last_move),
                  TopRow(game.field, unwrap(game.state.last_move)),
                  other(game.state.player))

\* C30: under allow_draws = true, a move of the player who started the round
\* sets no result unless it fills the board; and if the move of that player
\* before it made four in a line, a move of the second player sets the
\* result: the starting player wins if the second player has no four in a
\* line after it, and it is a draw if both have.
C30_DelayedResult ==
    [][(MoveStep /\ stage.game.rules.allow_draws)
          => LET game == stage.game
                 starter == game.rules.starting_player
             IN  /\ game.state.player = starter
                       => (is_some(stage'.game.state.result) => BoardFull(stage'.game.field))
                 /\ (game.state.player = other(starter) /\ LastMoveMadeRun(game))
                       => /\ is_some(stage'.game.state.result)
                          /\ unwrap(stage'.game.state.result).winner =
                                IF HasRun(stage'.game.field, other(starter)) THEN Draw
                                ELSE starter]_vars

\* Under allow_draws = true the second player has just moved after a move of
\* the starting player that made four in a line, both have four in a line
\* and the result is a draw.
C30_Witness ==
    /\ last.op = "end_turn" /\ last.ok
    /\ stage.game.rules.allow_draws
    /\ stage.game.state.player = stage.game.rules.starting_player
    /\ HasRun(stage.game.field, stage.game.rules.starting_player)
    /\ HasRun(stage.game.field, other(stage.game.rules.starting_player))
    /\ is_some(stage.game.state.result)
    /\ unwrap(stage.game.state.result).winner = Draw

\* The cells of a match ((x1, y1), (x2, y2)): those on the line from the one
\* end to the other.
sgn(n) == IF n > 0 THEN 1 ELSE IF n < 0 THEN -1 ELSE 0
abs(n) == IF n < 0 THEN -n ELSE n
SegmentCells(m) ==
    {<<m[1][1] + k * sgn(m[2][1] - m[1][1]), m[1][2] + k * sgn(m[2][2] - m[1][2])>> :
        k \in 0 .. Max(abs(m[2][1] - m[1][1]), abs(m[2][2] - m[1][2]))}

\* The match is a line of at least WIN_LEN cells of the board, all with a
\* chip of player.
SegmentOf(field, m, player) ==
    /\ m[2] \in SegmentCells(m)
    /\ Cardinality(SegmentCells(m)) >= WIN_LEN
    /\ \A c \in SegmentCells(m) :
          c[1] \in Idx /\ c[2] \in Idx /\ field[c[1]][c[2]] = Some(player)

\* C31: a result on a board where both players have four in a line is a draw
\* and has a match of either player; a result with P1 or P2 as the winner has
\* matches, and each of them is a line of the winner's chips.
C31_WinnerAndMatches ==
    is_some(stage.game.state.result)
        => LET field == stage.game.field
               result == unwrap(stage.game.state.result)
               matches == {result.matches[i] : i \in 1 .. Len(result.matches)}
           IN  /\ (HasRun(field, P1) /\ HasRun(field, P2))
                     => /\ result.winner = Draw
                        /\ \A p \in Player : \E m \in matches : SegmentOf(field, m, p)
               /\ result.winner \in Player
                     => /\ matches # {}
                        /\ \A m \in matches : SegmentOf(field, m, result.winner)

\* The result has a player as the winner and a diagonal among its matches,
\* each match a line of chips of the winner.
C31_Witness ==
    /\ is_some(stage.game.state.result)
    /\ unwrap(stage.game.state.result).winner \in Player
    /\ \E i \in 1 .. Len(unwrap(stage.game.state.result).matches) :
          LET m == unwrap(stage.game.state.result).matches[i]
          IN  /\ m[1][1] # m[2][1] /\ m[1][2] # m[2][2]
              /\ SegmentOf(stage.game.field, m, unwrap(stage.game.state.result).winner)

\* The matches of the scan of the whole board, as get_result collects them.
FullScan(field) ==
    LET matches == get_diagonal_matches(get_horizontal_and_vertical_matches(<<>>, field),
                                        field)
    IN  {matches[i] : i \in 1 .. Len(matches)}

\* C32: after an end_turn that returned Ok, is_move_winning of the cell that
\* was filled, for the player who moved, holds if and only if a match of the
\* scan of the whole board goes through that cell; and if it holds, get_result
\* gives a result.
C32_IncrementalIsFullScan ==
    [][MoveStep
          => LET player == stage.game.state.player
                 col == last'.col
                 row == lowest_empty(stage.game.field, col, FIELD_SIZE - 1)
                 field == stage'.game.field
             IN  /\ is_move_winning(field, col, row, player)
                       <=> \E m \in FullScan(field) : <<col, row>> \in SegmentCells(m)
                 /\ is_move_winning(field, col, row, player)
                       => is_some(get_result(field, stage.game.state.turn))]_vars

\* A move has just filled a cell of a diagonal of four:
\* is_move_winning holds for it and a match of the scan goes through it.
C32_Witness ==
    /\ last.op = "end_turn" /\ last.ok
    /\ LET col == last.col
           row == TopRow(stage.game.field, col)
           player == other(stage.game.state.player)
       IN  /\ is_move_winning(stage.game.field, col, row, player)
           /\ \E m \in FullScan(stage.game.field) :
                 /\ <<col, row>> \in SegmentCells(m)
                 /\ m[1][1] # m[2][1] /\ m[1][2] # m[2][2]

\* The cells of the board that hold a chip.
Occupied(field) == {c \in Idx \X Idx : is_some(field[c[1]][c[2]])}

\* C33: the cells that hold a chip are as many as the moves that were made
\* (the turn), at most FIELD_SIZE * FIELD_SIZE; the player to move is the
\* starting player after an even number of moves and the other after an odd
\* number; no empty cell is below a chip; and an end_turn that returned Ok
\* has filled one cell and passed the move to the other player, while one
\* that returned an error has filled none.
C33_BoardInvariants ==
    /\ [](LET game == stage.game
          IN  /\ Cardinality(Occupied(game.field)) = game.state.turn
              /\ Cardinality(Occupied(game.field)) <= FIELD_SIZE * FIELD_SIZE
              /\ game.state.player = IF game.state.turn % 2 = 0
                                     THEN game.rules.starting_player
                                     ELSE other(game.rules.starting_player)
              /\ \A x \in Idx, y \in Idx :
                    (is_some(game.field[x][y]) /\ y < FIELD_SIZE - 1)
                       => is_some(game.field[x][y + 1]))
    /\ [][last'.op = "end_turn"
            => IF last'.ok
               THEN /\ Cardinality(Occupied(stage'.game.field)) =
                          Cardinality(Occupied(stage.game.field)) + 1
                    /\ Occupied(stage.game.field) \subseteq Occupied(stage'.game.field)
                    /\ stage'.game.state.player = other(stage.game.state.player)
               ELSE Occupied(stage'.game.field) = Occupied(stage.game.field)]_vars

\* The last cell of the board has just been filled, by the starting player.
C33_Witness ==
    /\ last.op = "end_turn" /\ last.ok
    /\ Cardinality(Occupied(stage.game.field)) = FIELD_SIZE * FIELD_SIZE
    /\ stage.game.state.turn = LAST_TURN + 1
    /\ stage.game.state.player = other(stage.game.rules.starting_player)

\* C34: a board with a chip in every cell has a result, whether draws are
\* allowed or not, and if neither player has four in a line the result is a
\* draw with no matches.
C34_FullBoardHasResult ==
    BoardFull(stage.game.field)
        => /\ is_some(stage.game.state.result)
           /\ (~HasRun(stage.game.field, P1) /\ ~HasRun(stage.game.field, P2))
                 => /\ unwrap(stage.game.state.result).winner = Draw
                    /\ unwrap(stage.game.state.result).matches = <<>>

\* Under allow_draws = true the board is filled, nobody has four in a line
\* and the result is a draw with no matches.
C34_Witness ==
    /\ BoardFull(stage.game.field)
    /\ stage.game.rules.allow_draws
    /\ ~HasRun(stage.game.field, P1) /\ ~HasRun(stage.game.field, P2)
    /\ stage.game.state.result = Some([winner |-> Draw, matches |-> <<>>])

\* An empty slot of the grid lies below a chip of its column.
Floating(field) ==
    \E x \in Idx, y \in Idx :
        /\ is_none(field[x][y])
        /\ \E above \in 0 .. (y - 1) : is_some(field[x][above])

\* The chips of `player` in the grid.
Chips(field, player) ==
    Cardinality({c \in Idx \X Idx : field[c[1]][c[2]] = Some(player)})

\* C35: from_raw_data accepts the grid of a position that moves from the empty
\* board lead to, under the starting player of those moves; it rejects with
\* Gravity a grid with an empty slot below a chip, and with ChipCount a grid
\* without such a slot whose chip counts are neither equal nor one more for
\* the starting player.
C35_Validation ==
    [][last'.op = "from_raw_data"
         => LET grid == RawGrid(stage.game, last'.hole)
                mine == Chips(grid, last'.starter)
                theirs == Chips(grid, other(last'.starter))
            IN  /\ (~last'.hole /\ last'.starter = stage.game.rules.starting_player)
                      => last'.ok
                /\ Floating(grid) => (~last'.ok /\ last'.err = "Gravity")
                /\ (~Floating(grid) /\ mine # theirs /\ mine # theirs + 1)
                      => (~last'.ok /\ last'.err = "ChipCount")
                /\ last'.ok => (~Floating(grid) /\ (mine = theirs \/ mine = theirs + 1))]_vars

\* The grid of a position after moves, with the slot under two chips of the
\* last move's column emptied, has been rejected with Gravity.
C35_Witness ==
    /\ last.op = "from_raw_data"
    /\ last.hole
    /\ stage.game.state.turn > 0
    /\ ops > 0
    /\ is_some(stage.game.field[unwrap(stage.game.state.last_move)][FIELD_SIZE - 3])
    /\ ~last.ok
    /\ last.err = "Gravity"

\* C40: from_raw_data on the grid of a position that n moves from the empty
\* board lead to, under the rules of those moves, succeeds with the turn
\* index and the current player of the played game: the starting player when
\* n is even, the other player when n is odd.
C40_AsStated ==
    [][(/\ last'.op = "from_raw_data"
        /\ ~last'.hole
        /\ last'.starter = stage.game.rules.starting_player)
         => /\ last'.ok
            /\ last'.game.state.turn = stage.game.state.turn
            /\ last'.game.state.player = stage.game.state.player
            /\ last'.game.state.player =
                   IF stage.game.state.turn % 2 = 0
                   THEN stage.game.rules.starting_player
                   ELSE other(stage.game.rules.starting_player)]_vars

\* C36: a round without a result is restarted only by a restart-response with
\* accepted = true whose sender's opponent has a pending restart request (or
\* by a restart request without a config change from the opponent of a
\* pending request); a restart-response with accepted = true whose sender's
\* opponent has no pending request leaves the stage, the round counter and
\* the timers as they were.
C36_AsStated ==
    [][/\ (~is_game_over(stage) /\ round' # round)
            => \/ /\ last'.op = "RestartResponse"
                  /\ last'.accepted
                  /\ is_some(restart_requests[other(last'.player)])
               \/ /\ last'.op = "Restart"
                  /\ last'.delta # "changed"
                  /\ is_some(restart_requests[other(last'.player)])
       /\ (/\ last'.op = "RestartResponse"
           /\ last'.accepted
           /\ is_none(restart_requests[other(last'.player)]))
            => /\ stage' = stage
               /\ round' = round
               /\ timers' = timers]_vars

\* C37: after a step that restarts the round (the round counter changes)
\* neither player has a pending restart request and no timer of a restart
\* request is armed.
C37_AsStated ==
    [][round' # round
         => \A p \in Player :
                /\ is_none(restart_requests'[p])
                /\ RequestTimers(p)' = {}]_vars

\* The step is a pick-player message sent on by the host connection of the
\* Lobby that is its controller.
HostPicks ==
    /\ last'.op = "PeerPicks"
    /\ \E a \in LobbyIds :
          /\ peer[last'.player].controller = Some(a)
          /\ lobby[a].host = last'.player

\* A pick-player message that a connection other than the host of its Lobby
\* sends on.
CandidatePicks(c) == PeerPicks(c) /\ ~HostPicks

\* The registry, the Lobbies and the connections when no host connection is
\* sent a pick-player message by its client: the pick-player messages are
\* those that candidate connections receive.
NextCandidatePicks ==
    \/ \E c \in Peers : RouterCreates(c)
    \/ \E c \in Peers : RouterJoins(c)
    \/ RouterRemoves
    \/ \E id \in LobbyIds : LobbyStarts(id)
    \/ \E id \in LobbyIds : LobbyConnects(id)
    \/ \E id \in LobbyIds : LobbyDisconnected(id)
    \/ \E id \in LobbyIds : LobbyPicks(id)
    \/ \E id \in LobbyIds : LobbyShutdown(id)
    \/ \E id \in LobbyIds : SpawnedGameStarts(id)
    \/ \E id \in LobbyIds : SpawnedGameReceives(id)
    \/ \E c \in Peers : PeerReceives(c)
    \/ \E c \in Peers : PeerStops(c)
    \/ \E c \in Peers : PeerDrops(c)
    \/ \E c \in Peers : CandidatePicks(c)

SpecCandidatePicks == InitLobby /\ [][NextCandidatePicks]_vars

\* C38: when only candidate connections send pick-player messages on, the
\* handling of a pick-player message by a Lobby removes no candidate, starts
\* no Game and does not stop the Lobby.
C38_AsStated ==
    [][last'.op = "IncomingPickPlayer"
         => \A a \in LobbyIds :
                /\ lobby'[a].players = lobby[a].players
                /\ is_none(lobby'[a].game)
                /\ lobby'[a].run = lobby[a].run]_vars

\* The registry, the Lobbies and the connections when every actor goes on
\* handling the messages of its mailbox: the router, each Lobby, each Game
\* that a Lobby started and each connection.  When a connection ends is left
\* open.
SpecLobbyFair ==
    /\ SpecLobby
    /\ WF_vars(\E c \in Peers : RouterCreates(c))
    /\ WF_vars(\E c \in Peers : RouterJoins(c))
    /\ WF_vars(RouterRemoves)
    /\ \A id \in LobbyIds :
          /\ WF_vars(LobbyStarts(id))
          /\ WF_vars(LobbyConnects(id))
          /\ WF_vars(LobbyDisconnected(id))
          /\ WF_vars(LobbyPicks(id))
          /\ WF_vars(LobbyShutdown(id))
          /\ WF_vars(SpawnedGameStarts(id))
          /\ WF_vars(SpawnedGameReceives(id))
    /\ \A c \in Peers : WF_vars(PeerReceives(c))

\* C39: once the host connection of a Lobby has ended, the Lobby eventually
\* has stopped and no entry of the registry holds it.
C39_AsStated ==
    \A a \in LobbyIds :
        (/\ lobby[a].run # "none"
         /\ peer[lobby[a].host].state \in {"stopped", "dropped"})
          ~> (/\ lobby[a].run = "stopped"
              /\ \A e \in lobbies : e.addr # a)
====
